---- MODULE Spec2Model ----
(***************************************************************************)
(* Master-side request/authentication channel and publish channel of       *)
(* salt/channel/server.py: ReqServerChannel (_auth, handle_message,        *)
(* session_key), PubServerChannel (presence tracking).                     *)
(*                                                                         *)
(* Strings of the program are modelled by small structured values:         *)
(*   - a public key string is [body, ws]: body 0 is the empty string,      *)
(*     body k>0 is the text of key k; ws says that the string carries      *)
(*     leading/trailing whitespace (str.strip() removes it);               *)
(*   - a reply is [enc, ret, signed, fields].                              *)
(***************************************************************************)
EXTENDS Integers, Sequences, FiniteSets, TLC

VARIABLES
    opts,       \* self.opts: the master configuration of this worker
    keys,       \* KeyStore bucket "keys": id -> {pub, state}
    denied,     \* KeyStore bucket "denied_keys": id -> list of pub strings
    connected,  \* ids the ConCache / ckminions.connected_ids() reports
    now,        \* time.time()
    sessions,   \* self.sessions: id -> (mtime, key) cached in the worker
    sessfile,   \* <cachedir>/sessions/<id>: (mtime, key) on disk
    keygen,     \* number of session keys generated so far per id (fresh keys)
    secret,     \* SMaster.secrets["aes"]["secret"].value: the shared master secret
    crypticle,  \* self.crypticle.key_string: the worker's copy of the secret
    present,          \* PubServerChannel.present: id -> set of subscribers
    presence_events,  \* PubServerChannel.presence_events: "True", "False", or
                      \* Unset in a channel that __setstate__ made
    client_id,        \* subscriber.id_ of every subscriber
    live,       \* history: id -> the subscribers added under id and not removed since
    ever,       \* history: subscriber -> the ids it was ever added under
    peer_keys,  \* MasterPubServerChannel.peer_keys: peer -> key (0: no entry)
    auth_errors,  \* MasterPubServerChannel.auth_errors: peer -> deque of (tag, data)
    published,  \* history: the calls of transport.publish_payload, in order
    draining,   \* the handle_pool_publish calls suspended in a drain loop
    drained,    \* history: the buffered events popped, with the key installed then
    arrived,    \* number of cluster/event messages received
    peer_aes,   \* the key each sender of the cluster encrypts with at present
    push,       \* MasterPubServerChannel.publish_payload: the call in progress
    mesh,       \* the masters of a cluster: their secrets, peer_keys and the
                \* key events on their way between them
    fetched,    \* per worker: the _auth call in progress and what it fetched
    rewriting,  \* ids whose session key file another worker is about to rewrite
    suspended,  \* the requests of this worker that await the application handler
    last        \* the last operation performed, its inputs and its outcome

\* the state of the request channel and of the publish channel
reqVars == <<opts, keys, denied, connected, now, sessions, sessfile, keygen,
             secret, crypticle>>
clusterVars ==
    <<peer_keys, auth_errors, published, draining, drained, arrived, peer_aes, push,
      mesh>>
pubVars == <<present, presence_events, client_id, live, ever, clusterVars>>

\* the calls in progress: in the other workers, and suspended in this one
auxVars == <<fetched, rewriting, suspended>>

vars == <<reqVars, pubVars, auxVars, last>>

----------------------------------------------------------------------------
(* Bounds of the model *)

MaxKey == 2       \* distinct non-empty public key texts
MaxGen == 2       \* session keys generated per identity
MaxNow == 3       \* the clock runs from 0 to MaxNow
MaxClients == 2   \* subscribers of the publish channel
MaxSecret == 3    \* master secrets there are: 1 at start, then rotated
MaxSuspended == 2 \* requests suspended at the application handler at a time
MaxEvents == 3    \* cluster/event messages received
MaxPeerKey == 2   \* keys a peer has had
MaxBuffered == 2  \* cluster/event messages received while keys are exchanged
MaxRotations == 1 \* rotations of a secret while the masters exchange keys
MaxTag == 4       \* "/"-separated parts of an event tag

----------------------------------------------------------------------------
(* Data *)

Ids == {"m1", "m2", "m3"}    \* identities that pass valid_id
InvalidId == "../m"          \* an identity that valid_id refuses
AuthIds == Ids \cup {InvalidId}

Pubs == [body : 0..MaxKey, ws : BOOLEAN]
EmptyPub == [body |-> 0, ws |-> FALSE]

Clients == 1..MaxClients     \* the subscriber objects of the publish transport
Workers == {"w1", "w2"}      \* the worker processes that share the KeyStore
NoCall == [id |-> ""]        \* a worker with no _auth call in progress

NoKey == [pub |-> EmptyPub, state |-> "none"]      \* cache.fetch returned None
NoSessKey == [id |-> "", n |-> 0]
NoSess == [mtime |-> -1, key |-> NoSessKey]        \* no entry / no file

valid_id(id) == id \in Ids

\* str.strip(): removes the surrounding whitespace of a string
Strip(p) == [p EXCEPT !.ws = FALSE]

\* salt.crypt.clean_key: normalises a key before comparison
clean_key(p) == [body |-> p.body, ws |-> FALSE]

compare_keys(key1, key2) == clean_key(key1) = clean_key(key2)

\* bool(load["pub"]): the empty string is falsy
Truthy(p) == ~(p.body = 0 /\ ~p.ws)

\* salt.crypt.PublicKey.from_str: InvalidKeyError on text that is no key
ParsesAsKey(p) == p.body # 0

----------------------------------------------------------------------------
(* ReqServerChannel.session_key, on the state st = [sessions, sessfile,    *)
(* keygen] at time t.  Crypticle.write_key writes a fresh random key: the  *)
(* keygen[minion]+1-th key of that identity, with mtime t.                 *)

session_keyEager(st, minion, t) ==
    LET cached == st.sessions[minion]
        f      == st.sessfile[minion]
        regen  == f = NoSess \/ t - f.mtime >= opts.publish_session
        f2     == IF regen
                  THEN [mtime |-> t,
                        key |-> [id |-> minion, n |-> st.keygen[minion] + 1]]
                  ELSE f
    IN  IF cached # NoSess /\ t - cached.mtime < opts.publish_session
        THEN [key |-> cached.key, st |-> st]
        ELSE [key |-> f2.key,
              st  |-> [sessions |-> [st.sessions EXCEPT ![minion] = f2],
                       sessfile |-> [st.sessfile EXCEPT ![minion] = f2],
                       keygen   |-> IF regen
                                    THEN [st.keygen EXCEPT ![minion] = @ + 1]
                                    ELSE st.keygen]]

session_key(st, minion, t) ==
    LET cached == st.sessions[minion]
        f      == st.sessfile[minion]
        regen  == f = NoSess \/ t - f.mtime > opts.publish_session
        f2     == IF regen
                  THEN [mtime |-> t,
                        key |-> [id |-> minion, n |-> st.keygen[minion] + 1]]
                  ELSE f
    IN  IF cached # NoSess /\ t - cached.mtime < opts.publish_session
        THEN [key |-> cached.key, st |-> st]
        ELSE [key |-> f2.key,
              st  |-> [sessions |-> [st.sessions EXCEPT ![minion] = f2],
                       sessfile |-> [st.sessfile EXCEPT ![minion] = f2],
                       keygen   |-> IF regen
                                    THEN [st.keygen EXCEPT ![minion] = @ + 1]
                                    ELSE st.keygen]]

SessState == [sessions |-> sessions, sessfile |-> sessfile, keygen |-> keygen]

----------------------------------------------------------------------------
(* Replies *)

(* A reply is [enc, ret, signed, fields, key]:                             *)
(*   enc "str": the string ret;  enc "clear": {"enc": "clear", "load": ..} *)
(*   with load.ret = ret (signed by _clear_signed or not);  enc "pub": the *)
(*   unsigned accept reply;  enc "raw": the handler's result sent as is;   *)
(*   enc "aes": Crypticle(key).dumps(..);  enc "private": the dict built   *)
(*   by _encrypt_private.  fields are the keys of the reply's load.        *)

NoReply == [enc |-> "none", ret |-> "none", signed |-> FALSE, fields |-> {},
            key |-> NoSessKey]

Clear(ret) == [enc |-> "clear", ret |-> ret, signed |-> FALSE, fields |-> {"ret"},
               key |-> NoSessKey]

Str(text) == [enc |-> "str", ret |-> text, signed |-> FALSE, fields |-> {},
              key |-> NoSessKey]

\* Crypticle(opts, k).dumps(what)
Dumps(k, what) == [enc |-> "aes", ret |-> what, signed |-> FALSE, fields |-> {},
                   key |-> k]

\* the key string of the master secret number n
MasterKey(n) == [id |-> "aes", n |-> n]

\* ReqServerChannel._clear_signed: c.sigOk says that master_key.sign supports
\* the requested signing algorithm
clear_signed(c, load) ==
    IF c.sigOk
    THEN [enc |-> "clear", ret |-> load.ret, signed |-> TRUE, fields |-> load.fields,
          key |-> NoSessKey]
    ELSE Clear("bad sig algo")

\* the tail shared by the branches of _auth:
\*   if sign_messages: return self._clear_signed({"ret": r, "nonce": load["nonce"]}, sig_algo)
\*   else:             return {"enc": "clear", "load": {"ret": r}}
ClearRet(c, r) ==
    IF c.sign
    THEN IF "nonce" \notin c.load.has
         THEN [raised |-> "KeyError", reply |-> NoReply]
         ELSE [raised |-> "",
               reply |-> clear_signed(c, [ret |-> r, fields |-> {"ret", "nonce"}])]
    ELSE [raised |-> "", reply |-> Clear(r)]

----------------------------------------------------------------------------
(* ReqServerChannel._auth.                                                 *)
(* A call c = [load, sign, version, ar, as, sigOk, encOk, tokDec]:         *)
(*   load  = [has, id, pub]: has is the set of keys present in the load    *)
(*           among id, pub, nonce, token;                                  *)
(*   sign  = sign_messages; ar, as = what auto_key.check_autoreject and    *)
(*           check_autosign answer for load["id"];                         *)
(*   sigOk, encOk = whether load["sig_algo"], load["enc_algo"] are         *)
(*           algorithms salt.crypt supports (else UnsupportedAlgorithm);   *)
(*   tokDec = whether master_key.decrypt(load["token"]) succeeds.          *)
(* The call works on a record s of the state it reads and writes, with the *)
(* KeyStore writes and the audit events it made (reads: the cache.fetch     *)
(* calls of _auth; invoked: whether the                                    *)
(* application handler was called, decrypts: how many times the request    *)
(* was given to Crypticle.loads, for handle_message).                      *)

AuthStart ==
    [keys |-> keys, denied |-> denied, connected |-> connected,
     sess |-> SessState, crypticle |-> crypticle, invoked |-> FALSE,
     handled |-> {}, decrypts |-> 0, reads |-> << >>, writes |-> << >>, events |-> << >>]

\* mutant: the write of the key record is lost
StoreKeyLost(s, id, v) == [s EXCEPT !.writes = Append(@, <<"keys", id>>)]

\* self.cache.store(bucket, id, value)
StoreKey(s, id, v) ==
    [s EXCEPT !.keys[id] = v, !.writes = Append(@, <<"keys", id>>)]

\* lines 498-510: self.cache.fetch("keys", id) and ("denied_keys", id)
FetchKeys(s, id) ==
    [s EXCEPT !.reads = @ \o << <<"keys", id>>, <<"denied_keys", id>> >>]

\* mutant: the write of the denied keys is lost
StoreDeniedLost(s, id, v) == [s EXCEPT !.writes = Append(@, <<"denied_keys", id>>)]

StoreDenied(s, id, v) ==
    [s EXCEPT !.denied[id] = v, !.writes = Append(@, <<"denied_keys", id>>)]

\* fire_event(eload, "auth") when opts["auth_events"] is True; act is ""
\* where eload carries no "act"
FireAuth(s, c, result, act, pub) ==
    IF opts.auth_events
    THEN [s EXCEPT !.events = Append(@, [result |-> result, act |-> act,
                                        id |-> c.load.id, pub |-> pub])]
    ELSE s

\* the call ends: r = [raised, reply]
Return(s, r) == [raised |-> r.raised, reply |-> r.reply] @@ s

Raise(s, exc) == Return(s, [raised |-> exc, reply |-> NoReply])

InList(x, lst) == \E i \in 1..Len(lst) : lst[i] = x

\* mutant: the mismatching key is not recorded in denied_keys
AuthDeniedNoRecord(s, c, pub, act) ==
    Return(FireAuth(s, c, "False", act, pub), ClearRet(c, "False"))

\* lines 540-558, 637-656, 693-707: the presented key does not match
AuthDenied(s, c, pub, act) ==
    LET id  == c.load.id
        den == s.denied[id]
        s1  == IF ~InList(pub, den) THEN StoreDenied(s, id, Append(den, pub)) ELSE s
    IN  Return(FireAuth(s1, c, "False", act, pub), ClearRet(c, "False"))

\* lines 765-847: the accept reply, pub being a usable public key
AuthReply(s, c, pub) ==
    LET id     == c.load.id
        base   == {"enc", "pub_key", "publish_port"}
        psig   == IF opts.master_sign_pubkey THEN {"pub_sig"} ELSE {}
        hasTok == "token" \in c.load.has
        sk     == session_key(s.sess, id, now)
        s1     == [s EXCEPT !.sess = sk.st]
        flds   == base \cup psig \cup {"aes", "session", "sig"}
        done(f) ==
            LET s2 == FireAuth(s1, c, "True", "accept", pub) IN
            IF c.sign
            THEN IF "nonce" \notin c.load.has
                 THEN Raise(s2, "KeyError")
                 ELSE Return(s2, [raised |-> "",
                          reply |-> clear_signed(c, [ret |-> "accept",
                                                     fields |-> f \cup {"nonce"}])])
            ELSE Return(s2, [raised |-> "",
                     reply |-> [enc |-> "pub", ret |-> "accept", signed |-> FALSE,
                                fields |-> f, key |-> NoSessKey]])
    IN  IF opts.master_sign_pubkey /\ ~opts.pubkey_signature /\ ~c.sigOk
        THEN Raise(s, "UnsupportedAlgorithm")          \* line 783
        ELSE IF opts.auth_mode >= 2
        THEN IF hasTok
             THEN IF ~c.encOk THEN Return(s, [raised |-> "", reply |-> Clear("bad enc algo")])
                  ELSE IF ~c.tokDec
                       THEN Raise(s, "UnboundLocalError")  \* line 809: aes not set
                       ELSE Raise(s1, "TypeError")         \* line 839: sha256 of a str
             ELSE IF ~c.encOk THEN Raise(s, "UnsupportedAlgorithm")   \* line 809
                  ELSE done(flds)
        ELSE IF hasTok /\ ~c.encOk
             THEN Return(s, [raised |-> "", reply |-> Clear("bad enc algo")])
             ELSE IF ~c.encOk THEN Raise(s, "UnsupportedAlgorithm")   \* line 829
                  ELSE done(flds \cup (IF hasTok /\ c.tokDec THEN {"token"} ELSE {}))

\* mutant: the accept path writes the key record on every accept
AuthAcceptRewrite(s, c, pub, key) ==
    LET id  == c.load.id
        acc == [pub |-> pub, state |-> "accepted"]
        s1  == StoreKey(s, id, acc)
    IN  IF ~ParsesAsKey(pub)
        THEN Return(s1, ClearRet(c, "False"))
        ELSE AuthReply(s1, c, pub)

\* lines 721-763: the accept path
AuthAccept(s, c, pub, key) ==
    LET id  == c.load.id
        acc == [pub |-> pub, state |-> "accepted"]
        wr  == IF (key = NoKey \/ key.state # "accepted") /\ ~opts.open_mode
               THEN TRUE
               ELSE opts.open_mode /\ Truthy(pub) /\ (key = NoKey \/ pub # key.pub)
        key2 == IF wr THEN acc ELSE key
        s1  == IF wr THEN StoreKey(s, id, acc) ELSE s
        s2  == IF opts.con_cache
               THEN [s1 EXCEPT !.connected = @ \cup {id}]     \* cache_cli.put_cache
               ELSE s1
    IN  IF ~wr /\ opts.open_mode /\ ~Truthy(pub)
        THEN Return(s, ClearRet(c, "False"))                   \* line 732
        ELSE IF ~ParsesAsKey(key2.pub)
             THEN Return(s2, ClearRet(c, "False"))             \* line 751
             ELSE AuthReply(s2, c, pub)

\* a reject reply after the audit event (result False)
AuthReject(s, c, pub, act) ==
    Return(FireAuth(s, c, "False", act, pub), ClearRet(c, "False"))

\* mutant: an accepted identity is re-keyed with whatever key it presents
AuthAcceptedSwap(s, c, pub, key) ==
    AuthAccept(StoreKey(s, c.load.id, [pub |-> pub, state |-> "accepted"]), c, pub, key)

\* lines 531-558: the stored key is accepted
AuthAccepted(s, c, pub, key) ==
    IF ~compare_keys(key.pub, pub)
    THEN AuthDenied(s, c, pub, "denied")
    ELSE AuthAccept(s, c, pub, key)

\* mutant: auto-sign is looked at before auto-reject
AuthNewSignFirst(s, c, pub, key) ==
    LET id == c.load.id IN
    IF c.as
    THEN AuthAccept(s, c, pub, key)
    ELSE IF c.ar
    THEN AuthReject(StoreKey(s, id, [pub |-> pub, state |-> "rejected"]),
                    c, pub, "reject")
    ELSE Return(FireAuth(StoreKey(s, id, [pub |-> pub, state |-> "pending"]),
                         c, "True", "pend", pub),
                ClearRet(c, "True"))

\* lines 560-596: no stored key, a new minion
AuthNew(s, c, pub, key) ==
    LET id == c.load.id IN
    IF c.ar
    THEN AuthReject(StoreKey(s, id, [pub |-> pub, state |-> "rejected"]),
                    c, pub, "reject")
    ELSE IF ~c.as
    THEN Return(FireAuth(StoreKey(s, id, [pub |-> pub, state |-> "pending"]),
                         c, "True", "pend", pub),
                ClearRet(c, "True"))
    ELSE AuthAccept(s, c, pub, key)

\* mutant: a matching pending key is stored again on every attempt
AuthPendingRestore(s, c, pub, key) ==
    LET id == c.load.id IN
    IF c.ar
    THEN AuthReject(StoreKey(s, id, [key EXCEPT !.state = "rejected"]),
                    c, pub, "reject")
    ELSE IF ~compare_keys(key.pub, pub)
    THEN AuthDenied(s, c, pub, "denied")
    ELSE IF ~c.as
    THEN Return(FireAuth(StoreKey(s, id, [pub |-> pub, state |-> "pending"]),
                         c, "True", "pend", pub),
                ClearRet(c, "True"))
    ELSE AuthAccept(s, c, pub, key)

\* lines 598-707: the stored key is pending
AuthPending(s, c, pub, key) ==
    LET id == c.load.id IN
    IF c.ar
    THEN AuthReject(StoreKey(s, id, [key EXCEPT !.state = "rejected"]),
                    c, pub, "reject")
    ELSE IF ~c.as
    THEN IF ~compare_keys(key.pub, pub)
         THEN AuthDenied(s, c, pub, "denied")
         ELSE Return(FireAuth(s, c, "True", "pend", pub), ClearRet(c, "True"))
    ELSE IF ~compare_keys(key.pub, pub)
         THEN AuthDenied(s, c, pub, "")
         ELSE AuthAccept(s, c, pub, key)

\* mutant: a rejected identity is treated as a new one
AuthDecideForgets(s0, c, pub) ==
    LET id   == c.load.id
        s    == FetchKeys(s0, id)
        key0 == s.keys[id]
        key  == IF key0 # NoKey THEN [key0 EXCEPT !.pub = Strip(@)] ELSE key0
    IN  IF opts.open_mode
        THEN AuthAccept(s, c, pub, key)
        ELSE IF key # NoKey /\ key.state = "rejected"
        THEN AuthNew(s, c, pub, NoKey)
        ELSE IF key # NoKey /\ key.state = "accepted"
        THEN AuthAccepted(s, c, pub, key)
        ELSE IF key = NoKey
        THEN AuthNew(s, c, pub, key)
        ELSE IF key.state = "pending"
        THEN AuthPending(s, c, pub, key)
        ELSE AuthReject(s, c, pub, "")

\* lines 494-719: the decision on the stored key
AuthDecide(s0, c, pub) ==
    LET id   == c.load.id
        s    == FetchKeys(s0, id)
        key0 == s.keys[id]
        key  == IF key0 # NoKey THEN [key0 EXCEPT !.pub = Strip(@)] ELSE key0
    IN  IF opts.open_mode
        THEN AuthAccept(s, c, pub, key)
        ELSE IF key # NoKey /\ key.state = "rejected"
        THEN AuthReject(s, c, pub, "")
        ELSE IF key # NoKey /\ key.state = "accepted"
        THEN AuthAccepted(s, c, pub, key)
        ELSE IF key = NoKey
        THEN AuthNew(s, c, pub, key)
        ELSE IF key.state = "pending"
        THEN AuthPending(s, c, pub, key)
        ELSE AuthReject(s, c, pub, "")

\* lines 452-492: the max_minions cap
AuthFull(c) ==
    /\ opts.max_minions > 0
    /\ ~(Cardinality(connected) <= opts.max_minions)
    /\ c.load.id \notin connected

\* mutant: the stored keys are fetched before the cap is looked at
authFetchFirst(c) ==
    LET s == AuthStart IN
    IF "id" \notin c.load.has THEN Raise(s, "KeyError")
    ELSE IF ~valid_id(c.load.id) THEN Return(s, ClearRet(c, "False"))
    ELSE IF "pub" \notin c.load.has THEN Raise(s, "KeyError")
    ELSE LET pub == Strip(c.load.pub)
             s1  == FetchKeys(s, c.load.id)
         IN  IF AuthFull(c)
             THEN Return(FireAuth(s1, c, "False", "full", pub), ClearRet(c, "full"))
             ELSE AuthDecide(s, c, pub)

\* ReqServerChannel._auth(load, sign_messages, version)
auth(c) ==
    LET s == AuthStart IN
    IF "id" \notin c.load.has THEN Raise(s, "KeyError")                \* line 440
    ELSE IF ~valid_id(c.load.id) THEN Return(s, ClearRet(c, "False"))
    ELSE IF "pub" \notin c.load.has THEN Raise(s, "KeyError")          \* line 450
    ELSE LET pub == Strip(c.load.pub) IN
         IF AuthFull(c)
         THEN Return(FireAuth(s, c, "False", "full", pub), ClearRet(c, "full"))
         ELSE AuthDecide(s, c, pub)

----------------------------------------------------------------------------
(* ReqServerChannel.handle_message.                                        *)
(* An envelope p = [wellformed, has, enc, version, id, load]:              *)
(*   wellformed: a dict with "enc" and "load"; has: which of "id" and      *)
(*   "version" it carries; load = [k, plain]: for enc "aes" the ciphertext *)
(*   of plain under the key k, otherwise plain itself.                     *)
(* A load L = [isdict, has, id, cmd, ts, tok, pub]: has is the set of keys *)
(*   present; tok is the number of the private key that made the token (0: *)
(*   not a token).                                                         *)
(* x = the answers of the collaborators during the call: ar, as, sigOk,    *)
(*   encOk, tokDec as for _auth, and h = [exc, fun, tgt], what the         *)
(*   application handler does: raise, or return req_opts with that fun     *)
(*   and (for send_private) that tgt.                                      *)

NulId  == "m\\0"         \* a string id with a NUL byte
IntId  == "<int>"        \* an id that is a number
NoneId == "<None>"       \* an id that is None
ListId == "<list>"       \* an id that is a list of strings without NUL

IsStr(id) == id \notin {IntId, NoneId, ListId}
\* "\0" in id_ raises TypeError: id_ is no string and no container
InRaises(id) == id \in {IntId, NoneId}
HasNul(id) == id = NulId

\* ReqServerChannel._update_aes
update_aes(s) ==
    IF secret # s.crypticle
    THEN [changed |-> TRUE, s |-> [s EXCEPT !.crypticle = secret]]
    ELSE [changed |-> FALSE, s |-> s]

\* one more call of Crypticle.loads on the request
Loads(s) == [s EXCEPT !.decrypts = @ + 1]

\* mutant: a decryption failure is final, the shared secret is not re-read
decode_payloadNoHeal(s, p, version) ==
    IF p.enc = "aes"
    THEN IF version > 2
         THEN IF "id" \notin p.has
              THEN [exc |-> "KeyError", s |-> s, load |-> p.load.plain]
              ELSE IF ~valid_id(p.id)
              THEN [exc |-> "SaltDeserializationError", s |-> s, load |-> p.load.plain]
              ELSE LET sk == session_key(s.sess, p.id, now)
                       s1 == Loads([s EXCEPT !.sess = sk.st])
                   IN  IF p.load.k = sk.key
                       THEN [exc |-> "", s |-> s1, load |-> p.load.plain]
                       ELSE [exc |-> "AuthenticationError", s |-> s1,
                             load |-> p.load.plain]
         ELSE IF p.load.k = MasterKey(s.crypticle)
              THEN [exc |-> "", s |-> Loads(s), load |-> p.load.plain]
              ELSE [exc |-> "AuthenticationError", s |-> Loads(s),
                    load |-> p.load.plain]
    ELSE [exc |-> "", s |-> s, load |-> p.load.plain]

\* ReqServerChannel._decode_payload: [exc, s, load]
decode_payload(s, p, version) ==
    IF p.enc = "aes"
    THEN IF version > 2
         THEN IF "id" \notin p.has
              THEN [exc |-> "KeyError", s |-> s, load |-> p.load.plain]
              ELSE IF ~valid_id(p.id)
              THEN [exc |-> "SaltDeserializationError", s |-> s, load |-> p.load.plain]
              ELSE LET sk == session_key(s.sess, p.id, now)
                       s1 == Loads([s EXCEPT !.sess = sk.st])
                   IN  IF p.load.k = sk.key
                       THEN [exc |-> "", s |-> s1, load |-> p.load.plain]
                       ELSE [exc |-> "AuthenticationError", s |-> s1,
                             load |-> p.load.plain]
         ELSE IF p.load.k = MasterKey(s.crypticle)
              THEN [exc |-> "", s |-> Loads(s), load |-> p.load.plain]
              ELSE LET u  == update_aes(Loads(s))
                       s2 == Loads(u.s)
                   IN  IF ~u.changed
                       THEN [exc |-> "AuthenticationError", s |-> u.s,
                             load |-> p.load.plain]
                       ELSE IF p.load.k = MasterKey(u.s.crypticle)
                            THEN [exc |-> "", s |-> s2, load |-> p.load.plain]
                            ELSE [exc |-> "AuthenticationError", s |-> s2,
                                  load |-> p.load.plain]
    ELSE [exc |-> "", s |-> s, load |-> p.load.plain]

\* mutant: a load without a token passes, required or not
validate_tokenLax(s, L, required) ==
    IF "tok" \in L.has /\ "id" \in L.has
    THEN IF ~valid_id(L.id) THEN "reject"
         ELSE IF s.keys[L.id].state # "accepted" THEN "reject"
         ELSE IF ~ParsesAsKey(s.keys[L.id].pub) THEN "InvalidKeyError"
         ELSE IF L.tok # s.keys[L.id].pub.body THEN "reject"
         ELSE "ok"
    ELSE "ok"

\* ReqServerChannel.validate_token: "ok", "reject", or the exception raised.
\* The key file <pki_dir>/minions/<id> is the accepted KeyRecord of id.
validate_token(s, L, required) ==
    IF "tok" \in L.has /\ "id" \in L.has
    THEN IF ~valid_id(L.id) THEN "reject"                     \* clean_join
         ELSE IF s.keys[L.id].state # "accepted" THEN "reject"   \* OSError
         ELSE IF ~ParsesAsKey(s.keys[L.id].pub) THEN "InvalidKeyError"
         ELSE IF L.tok # s.keys[L.id].pub.body THEN "reject"
         ELSE "ok"
    ELSE IF required THEN "reject" ELSE "ok"

\* ReqServerChannel._encrypt_private
encrypt_private(s, x, target, nonce, sign_messages) ==
    LET pub == s.keys[target] IN
    IF pub = NoKey \/ ~ParsesAsKey(pub.pub)
    THEN Return(s, [raised |-> "", reply |-> Dumps(MasterKey(s.crypticle), "empty")])
    ELSE IF ~x.encOk THEN Raise(s, "UnsupportedAlgorithm")          \* line 302
    ELSE IF sign_messages
         THEN IF ~nonce
              THEN Return(s, [raised |-> "",
                       reply |-> [enc |-> "raw", ret |-> "error: no nonce",
                                  signed |-> FALSE, fields |-> {"error"},
                                  key |-> NoSessKey]])
              ELSE IF ~x.sigOk THEN Raise(s, "UnsupportedAlgorithm")   \* line 313
              ELSE Return(s, [raised |-> "",
                       reply |-> [enc |-> "private", ret |-> "ret", signed |-> TRUE,
                                  fields |-> {"key", "dictkey"},
                                  key |-> [id |-> target, n |-> 0]]])
         ELSE Return(s, [raised |-> "",
                  reply |-> [enc |-> "private", ret |-> "ret", signed |-> FALSE,
                             fields |-> {"key", "dictkey"},
                             key |-> [id |-> target, n |-> 0]]])

\* dict.pop(k, None) on a load
Pop(L, k) == [L EXCEPT !.has = @ \ {k}]

\* lines 229-265: the application handler and the encoding of its result; L
\* is the load the handler is given
hm_dispatch(s0, p, x, version, L, id_) ==
    LET s     == [s0 EXCEPT !.invoked = TRUE, !.handled = L.has]
        nonce == p.enc = "aes" /\ version > 1 /\ "nonce" \in p.load.plain.has
        str(t) == Return(s, [raised |-> "", reply |-> Str(t)])
    IN  IF x.h.exc THEN str("Some exception handling minion payload")
        ELSE IF x.h.fun = "send_clear"
        THEN Return(s, [raised |-> "",
                 reply |-> [enc |-> "raw", ret |-> "ret", signed |-> FALSE,
                            fields |-> {}, key |-> NoSessKey]])
        ELSE IF x.h.fun = "send"
        THEN IF version > 2
             THEN IF id_ \notin Ids
                  THEN Raise(s, "OSError")    \* no session file can exist for id_
                  ELSE LET sk == session_key(s.sess, id_, now)
                           s1 == [s EXCEPT !.sess = sk.st]
                       IN  IF p.enc # "aes"
                           THEN Raise(s1, "UnboundLocalError")   \* nonce not set
                           ELSE Return(s1, [raised |-> "",
                                            reply |-> Dumps(sk.key, "ret")])
             ELSE IF p.enc # "aes"
                  THEN Raise(s, "UnboundLocalError")             \* nonce not set
                  ELSE Return(s, [raised |-> "",
                           reply |-> Dumps(MasterKey(s.crypticle), "ret")])
        ELSE IF x.h.fun = "send_private"
        THEN IF p.enc # "aes"
             THEN Raise(s, "UnboundLocalError")                  \* nonce not set
             ELSE encrypt_private(s, x, x.h.tgt, nonce, version > 1)
        ELSE str("Server-side exception handling payload")

\* mutant: the outer id is not compared with the id of the load
hm_checksUnbound(s, p, x, version, L, id_) ==
    LET bad == Return(s, [raised |-> "", reply |-> Str("bad load")])
        tokv(required) ==
            LET v == validate_token(s, L, required) IN
            IF v = "ok"
            THEN hm_dispatch(s, p, x, version,
                             Pop(IF version > 1 THEN Pop(L, "nonce") ELSE L, "tok"), id_)
            ELSE IF v = "reject" THEN bad
            ELSE Raise(s, v)
    IN  IF version > 2
        THEN IF opts.request_server_ttl > 0 /\ "ts" \notin L.has
             THEN Raise(s, "KeyError")                             \* line 200
             ELSE IF opts.request_server_ttl > 0
                     /\ now - L.ts > opts.request_server_ttl
             THEN IF "id" \notin L.has
                  THEN Raise(s, "KeyError")    \* line 204: the log message
                  ELSE bad
             ELSE IF "id" \notin L.has THEN Raise(s, "KeyError")   \* line 210
             ELSE IF ~valid_id(L.id) THEN bad
             ELSE tokv(TRUE)
        ELSE tokv(FALSE)

\* lines 192-227: the checks on an enc "aes" request
hm_checks(s, p, x, version, L, id_) ==
    LET bad == Return(s, [raised |-> "", reply |-> Str("bad load")])
        tokv(required) ==
            LET v == validate_token(s, L, required) IN
            IF v = "ok"
            THEN hm_dispatch(s, p, x, version,
                             Pop(IF version > 1 THEN Pop(L, "nonce") ELSE L, "tok"), id_)
            ELSE IF v = "reject" THEN bad
            ELSE Raise(s, v)
    IN  IF version > 2
        THEN IF opts.request_server_ttl > 0 /\ "ts" \notin L.has
             THEN Raise(s, "KeyError")                             \* line 200
             ELSE IF opts.request_server_ttl > 0
                     /\ now - L.ts > opts.request_server_ttl
             THEN IF "id" \notin L.has
                  THEN Raise(s, "KeyError")    \* line 204: the log message
                  ELSE bad
             ELSE IF "id" \notin L.has THEN Raise(s, "KeyError")   \* line 210
             ELSE IF p.id # L.id THEN bad
             ELSE IF ~valid_id(L.id) THEN bad
             ELSE tokv(TRUE)
        ELSE tokv(FALSE)

\* mutant: a decryption failure is answered with the name of the exception
handle_messageLeaky(p, x) ==
    LET s0      == AuthStart
        version == IF "version" \in p.has THEN p.version ELSE 0
        str(s, t) == Return(s, [raised |-> "", reply |-> Str(t)])
    IN  IF ~p.wellformed THEN str(s0, "bad load")
        ELSE LET d   == decode_payload(s0, p, version)
                 s   == d.s
                 L   == d.load
                 id_ == IF "id" \in L.has THEN L.id ELSE ""
             IN  IF d.exc # "" THEN str(s, d.exc)
                 ELSE IF ~L.isdict THEN str(s, "payload and load must be a dict")
                 ELSE IF InRaises(id_) THEN str(s, "bad load: id is not a string")
                 ELSE IF HasNul(id_) THEN str(s, "bad load: id contains a null byte")
                 ELSE IF p.enc = "clear" /\ "cmd" \in L.has /\ L.cmd = "_auth"
                 THEN auth([load |-> L, sign |-> version > 1, version |-> version,
                            ar |-> x.ar, as |-> x.as, sigOk |-> x.sigOk,
                            encOk |-> x.encOk, tokDec |-> x.tokDec])
                 ELSE IF p.enc = "aes"
                 THEN hm_checks(s, p, x, version, L, id_)
                 ELSE hm_dispatch(s, p, x, version, L, id_)

\* ReqServerChannel.handle_message(payload)
handle_message(p, x) ==
    LET s0      == AuthStart
        version == IF "version" \in p.has THEN p.version ELSE 0
        str(s, t) == Return(s, [raised |-> "", reply |-> Str(t)])
    IN  IF ~p.wellformed THEN str(s0, "bad load")
        ELSE LET d   == decode_payload(s0, p, version)
                 s   == d.s
                 L   == d.load
                 id_ == IF "id" \in L.has THEN L.id ELSE ""
             IN  IF d.exc # "" THEN str(s, "bad load")
                 ELSE IF ~L.isdict THEN str(s, "payload and load must be a dict")
                 ELSE IF InRaises(id_) THEN str(s, "bad load: id is not a string")
                 ELSE IF HasNul(id_) THEN str(s, "bad load: id contains a null byte")
                 ELSE IF p.enc = "clear" /\ "cmd" \in L.has /\ L.cmd = "_auth"
                 THEN auth([load |-> L, sign |-> version > 1, version |-> version,
                            ar |-> x.ar, as |-> x.as, sigOk |-> x.sigOk,
                            encOk |-> x.encOk, tokDec |-> x.tokDec])
                 ELSE IF p.enc = "aes"
                 THEN hm_checks(s, p, x, version, L, id_)
                 ELSE hm_dispatch(s, p, x, version, L, id_)

----------------------------------------------------------------------------
(* PubServerChannel: presence tracking.                                    *)
(* The operators work on pr = self.present and return [present, fired]:    *)
(* the new dict and the presence events fired.                             *)

PresenceIds == {"m1", "m2"}   \* the identities subscribers present

\* __setstate__ (lines 900-907) sets neither self.presence_events nor
\* self.aes_funcs: the channel the publish daemon gets when its process is
\* spawned, not forked, has no such attributes
Unset == "<unset>"
Unpickled == presence_events = Unset

\* mutant: the two events are fired whatever presence_events is
PresenceChangeAlways(new, lost, pr) ==
    << [tag |-> "change", new |-> new, lost |-> lost, present |-> {}],
       [tag |-> "present", new |-> {}, lost |-> {}, present |-> DOMAIN pr] >>

\* the two events fired when the set of present identities changes, under
\* `if self.presence_events:`; the attribute is there when this is evaluated
PresenceChange(new, lost, pr) ==
    CASE presence_events = "True" ->
            << [tag |-> "change", new |-> new, lost |-> lost, present |-> {}],
               [tag |-> "present", new |-> {}, lost |-> {}, present |-> DOMAIN pr] >>
      [] presence_events = "False" -> << >>

\* mutant: the events are fired at every add
add_client_presentLoud(pr, id_, client) ==
    LET pr2 == [i \in DOMAIN pr \cup {id_} |->
                   IF i = id_ /\ i \in DOMAIN pr THEN pr[i] \cup {client}
                   ELSE IF i = id_ THEN {client} ELSE pr[i]]
    IN  [present |-> pr2, fired |-> PresenceChange({id_}, {}, pr2)]

\* PubServerChannel._add_client_present, id_ being client.id_
add_client_present(pr, id_, client) ==
    IF id_ \in DOMAIN pr
    THEN [present |-> [pr EXCEPT ![id_] = @ \cup {client}], fired |-> << >>]
    ELSE LET pr2 == [i \in DOMAIN pr \cup {id_} |->
                        IF i = id_ THEN {client} ELSE pr[i]]
         IN  [present |-> pr2, fired |-> PresenceChange({id_}, {}, pr2)]

\* mutant: the entry of an identity is kept when its last subscriber leaves
remove_client_presentKeepEmpty(pr, id_, client) ==
    IF id_ = NoneId \/ id_ \notin DOMAIN pr
    THEN [present |-> pr, fired |-> << >>]
    ELSE IF client \notin pr[id_]
    THEN [present |-> pr, fired |-> << >>]
    ELSE [present |-> [pr EXCEPT ![id_] = @ \ {client}], fired |-> << >>]

\* PubServerChannel._remove_client_present, id_ being client.id_
remove_client_present(pr, id_, client) ==
    IF id_ = NoneId \/ id_ \notin DOMAIN pr
    THEN [present |-> pr, fired |-> << >>]
    ELSE IF client \notin pr[id_]
    THEN [present |-> pr, fired |-> << >>]
    ELSE LET clients == pr[id_] \ {client} IN
         IF clients = {}
         THEN LET pr2 == [i \in DOMAIN pr \ {id_} |-> pr[i]]
              IN  [present |-> pr2, fired |-> PresenceChange({}, {id_}, pr2)]
         ELSE [present |-> [pr EXCEPT ![id_] = clients], fired |-> << >>]

----------------------------------------------------------------------------
(* MasterPubServerChannel: the relay of events between the masters of a    *)
(* cluster.  A tag is the sequence of its "/"-separated parts.  The data   *)
(* of a cluster/event message is [k, payload]: the ciphertext of payload   *)
(* under the key k of the sender; payload = [n, src, orig] tells the       *)
(* events apart: the n-th event received, sent by src under the tag orig.  *)

Me == "me"                       \* opts["id"]
Peers == {"cluster", "p2"}       \* opts["cluster_peers"]: host names
UnknownPeer == "px"              \* a sender that is not in cluster_peers
Senders == Peers \cup {UnknownPeer}
OrigTags == {<<"minion", "start">>}

NoPush == [state |-> "idle"]

PeerTag(peer) == <<"cluster", "peer", peer>>
EventTag(peer, orig) == <<"cluster", "event", peer>> \o orig

\* str.startswith on tags: the parts of prefix are the first parts of tag
StartsWith(tag, prefix) ==
    Len(tag) >= Len(prefix) /\ SubSeq(tag, 1, Len(prefix)) = prefix

\* tag.replace(pat + "/", ""): every occurrence of the parts pat that is
\* followed by a "/" is removed, scanning from the left
RECURSIVE Replace(_, _)
Replace(tag, pat) ==
    IF Len(tag) <= Len(pat) THEN tag
    ELSE IF SubSeq(tag, 1, Len(pat)) = pat
    THEN Replace(SubSeq(tag, Len(pat) + 1, Len(tag)), pat)
    ELSE <<Head(tag)>> \o Replace(Tail(tag), pat)

\* MasterPubServerChannel.parse_cluster_tag
parse_cluster_tag(tag) ==
    LET rest    == Replace(tag, <<"cluster", "event">>)
        peer_id == IF rest = << >> THEN "" ELSE rest[1]
    IN  [peer_id |-> peer_id,
         stripped_tag |-> Replace(tag, <<"cluster", "event", peer_id>>)]

\* peer_id in self.peer_keys, and the key then
HasPeerKey(pk, peer_id) == peer_id \in DOMAIN pk /\ pk[peer_id] # 0

\* MasterPubServerChannel.extract_cluster_event: [ok, event_data]
extract_cluster_event(pk, peer_id, data) ==
    IF HasPeerKey(pk, peer_id) /\ data.k = pk[peer_id]
    THEN [ok |-> TRUE, event_data |-> [payload |-> data.payload, peer_id |-> peer_id]]
    ELSE [ok |-> FALSE, event_data |-> [payload |-> data.payload, peer_id |-> ""]]

\* the state handle_pool_publish works on; key_events counts the calls of
\* send_aes_key_event the step makes
ClusterState ==
    [peer_keys |-> peer_keys, auth_errors |-> auth_errors, published |-> published,
     drained |-> drained, suspended |-> FALSE, key_events |-> 0]

\* await self.transport.publish_payload(SaltEvent.pack(tag, event_data)): the
\* call is made, the coroutine is suspended
Publish(st, tag, event_data) ==
    [st EXCEPT !.published = Append(@, [tag |-> tag, data |-> event_data]),
               !.suspended = TRUE]

\* the drain loop of handle_pool_publish, lines 1205-1219 and 1223-1235, run
\* up to its next suspension or its end; tag is the tag of the cluster/peer
\* message being handled
RECURSIVE Drain(_, _, _)
Drain(st, peer, tag) ==
    IF st.auth_errors[peer] = << >> THEN [st EXCEPT !.suspended = FALSE]
    ELSE LET ev  == Head(st.auth_errors[peer])
             st1 == [st EXCEPT !.auth_errors[peer] = Tail(@),
                               !.drained = Append(@, [tag |-> ev.tag, data |-> ev.data,
                                                      key |-> st.peer_keys[peer]])]
             pt  == parse_cluster_tag(tag)
             ex  == extract_cluster_event(st1.peer_keys, pt.peer_id, ev.data)
         IN  IF ex.ok
             THEN Publish(st1, pt.stripped_tag, ex.event_data)
             ELSE Drain(st1, peer, tag)

\* mutant: the master does not send its own key when it installs one
handle_pool_publishSilent(st, msg) ==
    IF StartsWith(msg.tag, <<"cluster", "peer">>)
    THEN LET peer == msg.data.peer_id IN
         IF ~msg.data.has_me \/ peer \notin DOMAIN st.peer_keys THEN st
         ELSE IF ~msg.data.sigOk THEN st
         ELSE IF HasPeerKey(st.peer_keys, peer) /\ st.peer_keys[peer] = msg.data.aes
         THEN st
         ELSE Drain([st EXCEPT !.peer_keys[peer] = msg.data.aes], peer, msg.tag)
    ELSE st

\* mutant: the key is installed before the digest is compared
handle_pool_publishTrusting(st, msg) ==
    IF StartsWith(msg.tag, <<"cluster", "peer">>)
    THEN LET peer == msg.data.peer_id IN
         IF ~msg.data.has_me \/ peer \notin DOMAIN st.peer_keys THEN st
         ELSE IF HasPeerKey(st.peer_keys, peer) /\ st.peer_keys[peer] = msg.data.aes
         THEN st
         ELSE IF ~msg.data.sigOk THEN [st EXCEPT !.peer_keys[peer] = msg.data.aes]
         ELSE Drain([st EXCEPT !.peer_keys[peer] = msg.data.aes,
                               !.key_events = @ + 1], peer, msg.tag)
    ELSE IF StartsWith(msg.tag, <<"cluster", "event">>)
    THEN LET pt == parse_cluster_tag(msg.tag)
             ex == extract_cluster_event(st.peer_keys, pt.peer_id, msg.data)
         IN  IF ex.ok THEN Publish(st, pt.stripped_tag, ex.event_data)
             ELSE IF pt.peer_id \in DOMAIN st.auth_errors
             THEN [st EXCEPT !.auth_errors[pt.peer_id] = Append(@, msg)]
             ELSE st
    ELSE st

\* MasterPubServerChannel.handle_pool_publish(payload), up to its first
\* suspension.  msg = [tag, data]; the data of a cluster/peer message is
\* [peer_id, has_me, aes, sigOk]: has_me, whether data["peers"] has an entry
\* for this master; aes, the key it carries; sigOk, whether the digest matches
handle_pool_publish(st, msg) ==
    IF StartsWith(msg.tag, <<"cluster", "peer">>)
    THEN LET peer == msg.data.peer_id IN
         IF ~msg.data.has_me \/ peer \notin DOMAIN st.peer_keys
         THEN st                                    \* KeyError, no key of the peer
         ELSE IF ~msg.data.sigOk THEN st
         ELSE IF HasPeerKey(st.peer_keys, peer) /\ st.peer_keys[peer] = msg.data.aes
         THEN st
         ELSE Drain([st EXCEPT !.peer_keys[peer] = msg.data.aes,
                               !.key_events = @ + 1], peer, msg.tag)
    ELSE IF StartsWith(msg.tag, <<"cluster", "event">>)
    THEN LET pt == parse_cluster_tag(msg.tag)
             ex == extract_cluster_event(st.peer_keys, pt.peer_id, msg.data)
         IN  IF ex.ok THEN Publish(st, pt.stripped_tag, ex.event_data)
             ELSE IF pt.peer_id \in DOMAIN st.auth_errors
             THEN [st EXCEPT !.auth_errors[pt.peer_id] = Append(@, msg)]
             ELSE st                                         \* KeyError
    ELSE st

\* MasterPubServerChannel.publish_payload: the fan-out of an event of this
\* master.  A task is named after its target, this master or a peer; its
\* status is "none" (not created), "running", "ok", "closed" (it raised
\* StreamClosedError) or "error" (it raised another exception).
Targets == {Me} \cup Peers
NoLoad == [tag |-> << >>, enc |-> 0, payload |-> << >>]
Failed(tasks) == {t \in Targets : tasks[t] \in {"closed", "error"}}

\* lines 1268-1291: the tasks created for the event (tag, data) while the
\* master secret is sec, and what each one sends
create_tasks(tag, data, sec) ==
    LET peerTag == StartsWith(tag, <<"cluster", "peer">>)
        load    == [tag |-> tag, enc |-> 0, payload |-> data]
    IN  [state |-> "awaiting", tag |-> tag,
         tasks |-> [t \in Targets |-> IF t = Me /\ peerTag THEN "none" ELSE "running"],
         sent |-> [t \in Targets |->
                     IF t = Me THEN IF peerTag THEN NoLoad ELSE load
                     ELSE IF peerTag THEN load
                     ELSE [tag |-> EventTag(Me, tag), enc |-> sec, payload |-> data]],
         raised |-> "", logged |-> {}]

\* asyncio.gather(*tasks) that stops at the first failure
gatherFailFast(tasks) ==
    [done |-> Failed(tasks) # {} \/ \A t \in Targets : tasks[t] # "running",
     raised |-> IF Failed(tasks) # {} THEN "Exception" ELSE ""]

\* asyncio.gather(*tasks, return_exceptions=True), line 1292: done when every
\* task is, and it raises nothing
gather(tasks) ==
    [done |-> \A t \in Targets : tasks[t] # "running", raised |-> ""]

----------------------------------------------------------------------------
(* PubServerChannel.wrap_payload.  A target is [isstr, str, list]: a string *)
(* or a list of identities.  AbsentType stands for a load with no tgt_type. *)

AbsentType == "<absent>"
StrTgt(x) == [isstr |-> TRUE, str |-> x, list |-> << >>]
ListTgt(l) == [isstr |-> FALSE, str |-> "", list |-> l]
match_targets == {"pcre", "glob", "list"}
NoTopic == [attached |-> FALSE, lst |-> ListTgt(<< >>)]

\* lines 1040-1051 with the matcher left out: the target itself is attached
topic_lstRaw(load, match_ids) ==
    [attached |-> TRUE, lst |-> load.tgt, calls |-> << >>]

\* lines 1040-1051: the topic list of a load that is matched on the master,
\* and the calls of ckminions.check_minions made for it; match_ids is what
\* check_minions returns
topic_lst(load, match_ids) ==
    IF load.tgt.isstr
    THEN [attached |-> TRUE, lst |-> ListTgt(match_ids),
          calls |-> <<[tgt |-> load.tgt.str, tgt_type |-> load.tgt_type]>>]
    ELSE [attached |-> TRUE, lst |-> load.tgt, calls |-> << >>]

\* PubServerChannel.wrap_payload(load); o is [cluster_id, sign_pub_messages,
\* topic_support], the last being what self.transport.topic_support() returns
wrap_payload(o, load, match_ids) ==
    LET stamped == [load EXCEPT !.serial = ~o.cluster_id]
        payload == [enc |-> "aes", load |-> [k |-> secret, load |-> stamped],
                    sig |-> o.sign_pub_messages]
    IN  IF ~o.topic_support
        THEN [raised |-> "", payload |-> payload, topic |-> NoTopic, calls |-> << >>]
        ELSE IF load.tgt_type = AbsentType
        THEN [raised |-> "KeyError", payload |-> payload, topic |-> NoTopic,
              calls |-> << >>]
        ELSE IF load.tgt_type \in match_targets
        THEN LET t == topic_lst(load, match_ids) IN
             [raised |-> "", payload |-> payload,
              topic |-> [attached |-> t.attached, lst |-> t.lst], calls |-> t.calls]
        ELSE [raised |-> "", payload |-> payload, topic |-> NoTopic, calls |-> << >>]

----------------------------------------------------------------------------
(* Inputs *)

NoHandler == [exc |-> FALSE, fun |-> "send", tgt |-> "m1"]

\* the answers of the collaborators: all well, or one of them failing
ExtOk      == [ar |-> FALSE, as |-> FALSE, sigOk |-> TRUE, encOk |-> TRUE,
               tokDec |-> TRUE, h |-> NoHandler]
ExtChoices == {ExtOk, [ExtOk EXCEPT !.sigOk = FALSE], [ExtOk EXCEPT !.encOk = FALSE],
               [ExtOk EXCEPT !.tokDec = FALSE]}

\* an _auth load for the identity id presenting the key pub
AuthLoad(has, id, pub) ==
    [isdict |-> TRUE, has |-> has \cup {"cmd"}, id |-> id, cmd |-> "_auth",
     ts |-> 0, tok |-> 0, pub |-> pub]

\* the envelope of a clear request
ClearEnvelope(version, L) ==
    [wellformed |-> TRUE, has |-> IF version = 0 THEN {} ELSE {"version"},
     enc |-> "clear", version |-> version, id |-> "",
     load |-> [k |-> NoSessKey, plain |-> L]]

\* whether nothing outside the key decision can fail the request: the
\* algorithms are supported and the token, if any, decrypts
PlainRequest(L, x) ==
    /\ x.sigOk /\ x.encOk
    /\ "token" \in L.has => x.tokDec /\ opts.auth_mode < 2


\* the keys a request load can carry
FullLoad == {"id", "ts", "tok", "nonce", "cmd"}

\* a request load of the identity id, made at time ts, with the token tok
ReqLoad(has, id, ts, tok) ==
    [isdict |-> TRUE, has |-> has, id |-> id, cmd |-> "run", ts |-> ts,
     tok |-> tok, pub |-> EmptyPub]

\* the key a minion that is up to date encrypts its request with: its session
\* key for version > 2, the master secret before
CurrentKey(version, outer) ==
    IF version > 2
    THEN IF outer \in Ids THEN session_key(SessState, outer, now).key ELSE NoSessKey
    ELSE MasterKey(crypticle)

StaleKey == [id |-> "stale", n |-> 0]

\* the envelope of an enc "aes" request; outer "" stands for no "id"
AesEnvelope(version, outer, k, L) ==
    [wellformed |-> TRUE,
     has |-> (IF version = 0 THEN {} ELSE {"version"})
             \cup (IF outer = "" THEN {} ELSE {"id"}),
     enc |-> "aes", version |-> version, id |-> outer,
     load |-> [k |-> k, plain |-> L]]

\* a payload that is no dict, or lacks "enc" or "load"
Malformed == [ClearEnvelope(0, ReqLoad({}, "", 0, 0)) EXCEPT !.wellformed = FALSE]

\* what the application handler and the key wrapping do during the call
Handlers ==
    {[ExtOk EXCEPT !.h = [exc |-> e, fun |-> f, tgt |-> "m1"]] :
        e \in BOOLEAN, f \in {"send", "send_clear", "other"}}
    \cup {[y EXCEPT !.h = [exc |-> FALSE, fun |-> "send_private", tgt |-> t]] :
            y \in ExtChoices, t \in {"m1", "m3"}}

----------------------------------------------------------------------------
(* Actions *)

NoLast == [op |-> "none"]

\* what is recorded of a handle_message call that went to _auth
AuthSummary(L, x, sign, r) ==
    LET id == IF "id" \in L.has THEN L.id ELSE "" IN
    [op |-> "auth", id |-> id, pub |-> L.pub, ar |-> x.ar, as |-> x.as,
     sign |-> sign, plain |-> PlainRequest(L, x),
     pre |-> IF id \in Ids THEN keys[id] ELSE NoKey,
     predenied |-> IF id \in Ids THEN denied[id] ELSE << >>,
     preconn |-> connected,
     full |-> id \in Ids /\ opts.max_minions > 0
              /\ ~(Cardinality(connected) <= opts.max_minions) /\ id \notin connected,
     raised |-> r.raised, reply |-> r.reply, reads |-> r.reads,
     writes |-> r.writes, events |-> r.events]

\* the state of the request channel after a step with outcome r
EffectReq(r) ==
    /\ \A i \in Ids : r.sess.keygen[i] <= MaxGen
    /\ keys' = r.keys
    /\ denied' = r.denied
    /\ connected' = r.connected
    /\ sessions' = r.sess.sessions
    /\ sessfile' = r.sess.sessfile
    /\ keygen' = r.sess.keygen
    /\ crypticle' = r.crypticle
    /\ UNCHANGED <<opts, now, secret>>

\* the state after a handle_message call with outcome r
Effect(r) ==
    /\ EffectReq(r)
    /\ UNCHANGED <<pubVars, auxVars>>

\* a minion sends a clear "_auth" request: an identity and key of idpubs,
\* with or without a token (tokens), the collaborators answering as in exts
HandleAuthWith(idpubs, tokens, exts) ==
    /\ last = NoLast      \* the reply to the request before has been sent
    /\ \E ip \in idpubs, version \in {0, 3}, tk \in tokens,
       ar \in BOOLEAN, as \in BOOLEAN, x0 \in exts :
          LET L == AuthLoad({"id", "pub", "nonce"} \cup (IF tk THEN {"token"} ELSE {}),
                            ip[1], ip[2])
              x == [x0 EXCEPT !.ar = ar, !.as = as]
          IN  /\ x0.tokDec \/ tk
              /\ \E r \in {handle_message(ClearEnvelope(version, L), x)} :
                     /\ Effect(r)
                     /\ last' = AuthSummary(L, x, version > 1, r)

HandleAuth ==
    HandleAuthWith(({"m1"} \X Pubs) \cup {<<InvalidId, [body |-> 1, ws |-> FALSE]>>},
                   BOOLEAN, ExtChoices)

\* a minion sends a clear "_auth" request for m1, with or without a token;
\* what is recorded says whether the token was there and what became of it
HandleTokenAuth ==
    /\ last = NoLast
    /\ \E pub \in Pubs, version \in {0, 3}, tk \in BOOLEAN, as \in BOOLEAN,
          x0 \in ExtChoices :
          LET L == AuthLoad({"id", "pub", "nonce"} \cup (IF tk THEN {"token"} ELSE {}),
                            "m1", pub)
              x == [x0 EXCEPT !.as = as]
          IN  /\ x0.tokDec \/ tk
              /\ \E r \in {handle_message(ClearEnvelope(version, L), x)} :
                     /\ Effect(r)
                     /\ last' = [token |-> tk, sigOk |-> x.sigOk, encOk |-> x.encOk,
                                 tokDec |-> x.tokDec] @@ AuthSummary(L, x, version > 1, r)

\* the transport sends the reply (or the exception reaches it); the worker
\* waits for the next request
SendReply ==
    /\ last # NoLast
    /\ last' = NoLast
    /\ UNCHANGED <<reqVars, pubVars, auxVars>>

\* the master is restarted with another configuration:
\* ReqServerChannel.__init__ and post_fork
AuthConfigs ==
    [open_mode : BOOLEAN, max_minions : {0}, auth_events : {TRUE},
     auth_mode : {1}, con_cache : {FALSE}, master_sign_pubkey : {FALSE},
     pubkey_signature : {FALSE}, request_server_ttl : {0}, publish_session : {2}]

Restart(configs) ==
    /\ opts' \in configs \ {opts}
    /\ sessions' = [i \in Ids |-> NoSess]
    /\ crypticle' = secret
    /\ last' = NoLast
    /\ UNCHANGED <<keys, denied, connected, now, sessfile, keygen, secret>>
    /\ UNCHANGED <<pubVars, auxVars>>

\* a minion connects to or disconnects from the publish port
\* (what cache_cli.get_cached / ckminions.connected_ids report)
MinionConnects ==
    /\ last = NoLast
    /\ \E id \in Ids : id \notin connected /\ connected' = connected \cup {id}
    /\ UNCHANGED <<opts, keys, denied, now, sessions, sessfile, keygen, secret,
                   crypticle, last>>
    /\ UNCHANGED <<pubVars, auxVars>>

MinionDisconnects ==
    /\ last = NoLast
    /\ \E id \in connected : connected' = connected \ {id}
    /\ UNCHANGED <<opts, keys, denied, now, sessions, sessfile, keygen, secret,
                   crypticle, last>>
    /\ UNCHANGED <<pubVars, auxVars>>


\* what is recorded of any other handle_message call: the envelope p, the
\* collaborators' answers x and the outcome
ReqSummary(p, x, r) ==
    [op |-> "req", p |-> p, x |-> x, raised |-> r.raised, reply |-> r.reply,
     invoked |-> r.invoked, handled |-> r.handled]

\* the envelopes minions send on the request channel, besides the
\* well-formed "_auth" requests of HandleAuth
Requests ==
    LET hasChoices == {FullLoad} \cup {FullLoad \ {k} : k \in {"id", "ts", "tok", "nonce"}}
        loads == {ReqLoad(h, id, 0, tok) :
                     h \in hasChoices, id \in {"m1", "m2", IntId, NulId}, tok \in {1, 2}}
                 \cup {[ReqLoad(FullLoad, "m1", 0, 1) EXCEPT !.isdict = FALSE]}
        aes   == UNION {{AesEnvelope(v, o, k, L) :
                            k \in {CurrentKey(v, o), StaleKey}, L \in loads} :
                        v \in {0, 2, 3}, o \in {"m1", InvalidId}}
                 \cup {AesEnvelope(3, "", StaleKey, ReqLoad(FullLoad, "m1", 0, 1))}
        clear == {ClearEnvelope(v, ReqLoad(FullLoad, "m1", 0, 1)) : v \in {0, 3}}
        auths == {ClearEnvelope(v, AuthLoad({"id", "pub", "nonce"} \ {k}, "m1",
                                            [body |-> 1, ws |-> FALSE])) :
                     v \in {0, 3}, k \in {"id", "pub", "nonce"}}
    IN  aes \cup clear \cup auths \cup {Malformed}

HandleRequest ==
    /\ last = NoLast      \* the reply to the request before has been sent
    /\ \E p \in Requests, x \in Handlers :
          \E r \in {handle_message(p, x)} :
              /\ Effect(r)
              /\ last' = ReqSummary(p, x, r)

\* requests of m1 that differ in the id of their load: a string, a number,
\* None, a list, a string with NUL, or no id; "_auth" requests in clear and
\* other requests under the current key
IdRequests ==
    LET ids   == {"m1", IntId, NoneId, ListId, NulId}
        pub1  == [body |-> 1, ws |-> FALSE]
        auths == {ClearEnvelope(v, AuthLoad({"id", "pub", "nonce"} \ drop, id, pub1)) :
                     v \in {0, 3}, id \in ids, drop \in {{}, {"id"}}}
        reqs  == {AesEnvelope(v, "m1", CurrentKey(v, "m1"),
                              ReqLoad(FullLoad \ drop, id, 0, 1)) :
                     v \in {0, 3}, id \in ids, drop \in {{}, {"id"}}}
    IN  auths \cup reqs

HandleIdRequest ==
    /\ last = NoLast
    /\ \E p \in IdRequests, x \in Handlers :
          \E r \in {handle_message(p, x)} :
              /\ Effect(r)
              /\ last' = [writes |-> r.writes, events |-> r.events,
                          prekeys |-> keys, predenied |-> denied]
                         @@ ReqSummary(p, x, r)

\* the master rotates the shared secret (SMaster.secrets["aes"]["secret"])
RotateSecret ==
    /\ last = NoLast
    /\ secret < MaxSecret
    /\ secret' = secret + 1
    /\ UNCHANGED <<opts, keys, denied, connected, now, sessions, sessfile, keygen,
                   crypticle, last>>
    /\ UNCHANGED <<pubVars, auxVars>>

\* the enc "aes" requests of version <= 2: encrypted under one of the master
\* secrets there have been, or under no key of this master
SecretRequests ==
    LET loads == {ReqLoad(FullLoad \ {"tok"}, "m1", 0, 0),
                  ReqLoad(FullLoad, "m1", 0, 1), ReqLoad(FullLoad, "m1", 0, 2),
                  [ReqLoad(FullLoad, "m1", 0, 1) EXCEPT !.isdict = FALSE]}
    IN  {AesEnvelope(v, "", k, L) :
            v \in {0, 2}, k \in {MasterKey(n) : n \in 1..MaxSecret} \cup {StaleKey},
            L \in loads}

HandleSecretRequest ==
    /\ last = NoLast      \* the reply to the request before has been sent
    /\ \E p \in SecretRequests, x \in Handlers :
          \E r \in {handle_message(p, x)} :
              /\ Effect(r)
              /\ last' = [pre |-> crypticle, decrypts |-> r.decrypts]
                            @@ ReqSummary(p, x, r)

\* handle_message is a coroutine: it is suspended at `yield
\* self.payload_handler(payload)` (line 233) and other work of the worker,
\* the clock and the other workers go on meanwhile.  With a handler that
\* returns at once and asks for send_clear, handle_message gives the state at
\* the yield, and invoked tells whether the yield was reached.
AtYield == [exc |-> FALSE, fun |-> "send_clear", tgt |-> "m1"]

\* the requests of m1 that authenticated before: version 3, encrypted under a
\* session key that was issued for m1 or under no key of this master
SessionRequests ==
    {AesEnvelope(3, "m1", k, ReqLoad(FullLoad, "m1", 0, 1)) :
        k \in {[id |-> "m1", n |-> j] : j \in 1..keygen["m1"]} \cup {StaleKey}}

SessionHandlers ==
    {[ExtOk EXCEPT !.h = [exc |-> e, fun |-> f, tgt |-> "m1"]] :
        e \in BOOLEAN, f \in {"send", "send_clear"}}

\* a request arrives and is handled up to the yield
RequestArrives ==
    /\ last = NoLast
    /\ Cardinality(suspended) < MaxSuspended
    /\ \E p \in SessionRequests, x \in SessionHandlers :
          \E r \in {handle_message(p, [x EXCEPT !.h = AtYield])} :
              /\ EffectReq(r)
              /\ IF r.invoked
                 THEN /\ suspended' = suspended \cup {[p |-> p, x |-> x]}
                      /\ last' = last
                 ELSE /\ suspended' = suspended
                      /\ last' = ReqSummary(p, x, r)
              /\ UNCHANGED <<pubVars, fetched, rewriting>>

\* the application handler of a suspended request returns: lines 234-265
HandlerReturns ==
    /\ last = NoLast
    /\ \E q \in suspended :
          LET L == q.p.load.plain IN
          \E r \in {hm_dispatch(AuthStart, q.p, q.x, q.p.version, L, L.id)} :
              /\ EffectReq(r)
              /\ suspended' = suspended \ {q}
              /\ last' = ReqSummary(q.p, q.x, r)
              /\ UNCHANGED <<pubVars, fetched, rewriting>>

\* session_key in another worker: it finds the key file of m1 absent or
\* stale (lines 84-88) and, later, writes a new key to it
OtherWorkerStats ==
    /\ last = NoLast
    /\ "m1" \notin rewriting
    /\ \/ sessfile["m1"] = NoSess
       \/ now - sessfile["m1"].mtime > opts.publish_session
    /\ rewriting' = rewriting \cup {"m1"}
    /\ UNCHANGED <<reqVars, pubVars, fetched, suspended, last>>

OtherWorkerWrites ==
    /\ last = NoLast
    /\ "m1" \in rewriting
    /\ keygen["m1"] < MaxGen
    /\ sessfile' = [sessfile EXCEPT !["m1"] =
                       [mtime |-> now, key |-> [id |-> "m1", n |-> keygen["m1"] + 1]]]
    /\ keygen' = [keygen EXCEPT !["m1"] = @ + 1]
    /\ rewriting' = rewriting \ {"m1"}
    /\ UNCHANGED <<opts, keys, denied, connected, now, sessions, secret, crypticle>>
    /\ UNCHANGED <<pubVars, fetched, suspended, last>>

\* time passes
Tick ==
    /\ last = NoLast
    /\ now < MaxNow
    /\ now' = now + 1
    /\ UNCHANGED <<opts, keys, denied, connected, sessions, sessfile, keygen,
                   secret, crypticle, last>>
    /\ UNCHANGED <<pubVars, auxVars>>

\* PubServerChannel.presence_callback(subscriber, msg): msg carries the
\* identity id; dec: crypticle.loads(msg["load"]) succeeds; verified: what
\* aes_funcs.verify_minion(load["id"], load["tok"]) answers
presence_callback ==
    \E client \in Clients, enc \in {"aes", "clear"}, id \in PresenceIds,
       dec \in BOOLEAN, verified \in BOOLEAN :
        LET added == enc = "aes" /\ dec /\ ~Unpickled /\ verified
            r     == add_client_present(present, id, client)
        IN  /\ present' = IF added THEN r.present ELSE present
            /\ client_id' = IF added THEN [client_id EXCEPT ![client] = id] ELSE client_id
            /\ live' = IF added THEN [live EXCEPT ![id] = @ \cup {client}] ELSE live
            /\ ever' = IF added THEN [ever EXCEPT ![client] = @ \cup {id}] ELSE ever
            /\ last' = [op |-> "add", client |-> client, id |-> id, added |-> added,
                        raised |-> IF enc = "aes" /\ ~dec THEN "AuthenticationError"
                                   ELSE IF enc = "aes" /\ Unpickled
                                   THEN "AttributeError" ELSE "",
                        pre |-> present,
                        fired |-> IF added THEN r.fired ELSE << >>]
            /\ UNCHANGED <<reqVars, auxVars, clusterVars, presence_events>>

\* PubServerChannel.remove_presence_callback(subscriber)
remove_presence_callback ==
    \E client \in Clients :
        LET r == remove_client_present(present, client_id[client], client)
        IN  /\ present' = r.present
            /\ live' = [i \in Ids |-> live[i] \ {client}]
            /\ last' = [op |-> "remove", client |-> client, id |-> client_id[client],
                        added |-> FALSE, raised |-> "", pre |-> present,
                        fired |-> r.fired]
            /\ UNCHANGED <<reqVars, auxVars, clusterVars, presence_events, client_id,
                           ever>>

\* Parallel workers run _auth on the shared KeyStore.  A call is two steps:
\* the worker fetches the key record and the denied list of the identity
\* (lines 502-510), and later decides on what it fetched and stores (lines
\* 512-763).  The keys presented here differ from the key on record, so that
\* no call reaches the accept reply and the session keys.
RaceKey == [pub |-> [body |-> 1, ws |-> FALSE], state |-> "accepted"]
RacePubs == {q \in Pubs : ~q.ws /\ ~compare_keys(q, RaceKey.pub)}

AuthFetches ==
    \E w \in Workers, pub \in RacePubs, ar \in BOOLEAN, as \in BOOLEAN :
        /\ fetched[w] = NoCall
        /\ fetched' = [fetched EXCEPT ![w] =
                          [id |-> "m1", pub |-> pub, ar |-> ar, as |-> as,
                           key |-> keys["m1"], denied |-> denied["m1"]]]
        /\ UNCHANGED <<reqVars, pubVars, rewriting, suspended, last>>

AuthStores ==
    \E w \in Workers :
        /\ fetched[w] # NoCall
        /\ LET f == fetched[w]
               c == [load |-> AuthLoad({"id", "pub", "nonce"}, f.id, f.pub),
                     sign |-> FALSE, version |-> 0, ar |-> f.ar, as |-> f.as,
                     sigOk |-> TRUE, encOk |-> TRUE, tokDec |-> TRUE]
               s == [AuthStart EXCEPT !.keys[f.id] = f.key, !.denied[f.id] = f.denied]
               r == AuthDecide(s, c, Strip(f.pub))
           IN  /\ keys' = IF InList(<<"keys", f.id>>, r.writes)
                          THEN [keys EXCEPT ![f.id] = r.keys[f.id]] ELSE keys
               /\ denied' = IF InList(<<"denied_keys", f.id>>, r.writes)
                            THEN [denied EXCEPT ![f.id] = r.denied[f.id]] ELSE denied
               /\ r.sess = SessState
        /\ fetched' = [fetched EXCEPT ![w] = NoCall]
        /\ UNCHANGED <<opts, connected, now, sessions, sessfile, keygen, secret,
                       crypticle>>
        /\ UNCHANGED <<pubVars, rewriting, suspended, last>>

\* the messages the masters of the cluster send to the pool puller of this
\* master: send_aes_key_event and publish_payload of the sender, which carry
\* and use the key of the sender at that time; a message of which the
\* signature does not verify carries any key
PeerMessages ==
    {[tag |-> PeerTag(q),
      data |-> [peer_id |-> q, has_me |-> h, aes |-> k, sigOk |-> ok]] :
        q \in Senders, h \in BOOLEAN, k \in 1..MaxPeerKey, ok \in BOOLEAN}

EventMessages ==
    {[tag |-> EventTag(q, t),
      data |-> [k |-> peer_aes[q],
                payload |-> [n |-> arrived + 1, src |-> q, orig |-> t]]] :
        q \in Senders, t \in OrigTags}

OtherMessages == {[tag |-> <<"salt", "job">>, data |-> [k |-> 0]]}

\* the state after a step st of handle_pool_publish
ClusterEffect(st) ==
    /\ peer_keys' = st.peer_keys
    /\ auth_errors' = st.auth_errors
    /\ published' = st.published
    /\ drained' = st.drained
    /\ peer_aes' = peer_aes
    /\ UNCHANGED <<reqVars, auxVars, mesh, present, presence_events, client_id, live,
                   ever, push, last>>

\* a message of a peer arrives and is handled up to the first suspension
ClusterMessageArrives ==
    \/ \E msg \in PeerMessages \cup OtherMessages :
          LET st == handle_pool_publish(ClusterState, msg) IN
          /\ StartsWith(msg.tag, <<"cluster", "peer">>) /\ msg.data.sigOk
                => msg.data.aes = peer_aes[msg.data.peer_id]
          /\ ClusterEffect(st)
          /\ draining' = IF st.suspended
                         THEN draining \cup {[peer |-> msg.data.peer_id, tag |-> msg.tag]}
                         ELSE draining
          /\ arrived' = arrived
    \/ /\ arrived < MaxEvents
       /\ \E msg \in EventMessages :
             /\ ClusterEffect(handle_pool_publish(ClusterState, msg))
             /\ arrived' = arrived + 1
             /\ draining' = draining

\* a master of the cluster takes a new key
PeerRotates ==
    \E q \in Senders :
        /\ peer_aes[q] < MaxPeerKey
        /\ peer_aes' = [peer_aes EXCEPT ![q] = @ + 1]
        /\ UNCHANGED <<reqVars, auxVars, mesh, present, presence_events, client_id,
                       live, ever, peer_keys, auth_errors, published, draining, drained,
                       arrived, push, last>>

\* a suspended drain loop goes on: the publish it awaited is done
DrainResumes ==
    \E d \in draining :
        LET st == Drain(ClusterState, d.peer, d.tag) IN
        /\ ClusterEffect(st)
        /\ draining' = IF st.suspended THEN draining ELSE draining \ {d}
        /\ arrived' = arrived

\* The masters of a cluster exchange their keys.  mesh is [up, secret, keys,
\* queue]: the masters that run, the secret of each, the peer_keys of each,
\* and the keys of the key events on their way to the pool puller of each,
\* per sender and in the order sent.
Masters == {Me} \cup Peers

NoMesh ==
    [up |-> {}, secret |-> [m \in Masters |-> 1],
     keys |-> [m \in Masters |-> [q \in Masters \ {m} |-> 0]],
     queue |-> [m \in Masters |-> [q \in Masters \ {m} |-> << >>]]]

\* send_aes_key_event of the master m, and publish_payload of the event
\* publisher of m for the cluster/peer tag: the event goes to every peer, and
\* is lost for the peers that cannot be reached
Broadcast(ms, m) ==
    [ms EXCEPT !.queue = [q \in Masters |->
                  IF q # m /\ q \in ms.up
                  THEN [@[q] EXCEPT ![m] = Append(@, ms.secret[m])]
                  ELSE @[q]]]

\* the key event of the master q that carries the key aes
KeyEvent(q, aes) ==
    [tag |-> PeerTag(q),
     data |-> [peer_id |-> q, has_me |-> TRUE, aes |-> aes, sigOk |-> TRUE]]

\* a master starts and sends its key to its peers
MeshStarts ==
    \E m \in Masters \ mesh.up :
        /\ mesh' = Broadcast([mesh EXCEPT !.up = @ \cup {m}], m)
        /\ UNCHANGED <<reqVars, auxVars, present, presence_events, client_id, live,
                       ever, peer_keys, auth_errors, published, draining, drained,
                       arrived, peer_aes, push, last>>

\* the rotations there have been: the secret starts at 1
Rotations(ms) == ms.secret[Me] - 1

\* this master rotates its secret and sends the new key to its peers
MeshRotates ==
    \E m \in mesh.up \cap {Me} :
        /\ Rotations(mesh) < MaxRotations
        /\ mesh' = Broadcast([mesh EXCEPT !.secret[m] = @ + 1], m)
        /\ UNCHANGED <<reqVars, auxVars, present, presence_events, client_id, live,
                       ever, peer_keys, auth_errors, published, draining, drained,
                       arrived, peer_aes, push, last>>

\* what handle_pool_publish of the master m works on: its peer_keys, and
\* nothing buffered
MeshState(m) ==
    [peer_keys |-> mesh.keys[m], auth_errors |-> [x \in Masters \ {m} |-> << >>],
     published |-> << >>, drained |-> << >>, suspended |-> FALSE, key_events |-> 0]

\* the pool puller of a master hands the next key event to
\* handle_pool_publish
MeshDelivers ==
    \E m \in mesh.up : \E q \in Masters \ {m} :
        /\ mesh.queue[m][q] # << >>
        /\ LET r  == handle_pool_publish(MeshState(m),
                                         KeyEvent(q, Head(mesh.queue[m][q])))
               m1 == [mesh EXCEPT !.queue[m][q] = Tail(@), !.keys[m] = r.peer_keys]
           IN  mesh' = IF r.key_events > 0 THEN Broadcast(m1, m) ELSE m1
        /\ UNCHANGED <<reqVars, auxVars, present, presence_events, client_id, live,
                       ever, peer_keys, auth_errors, published, draining, drained,
                       arrived, peer_aes, push, last>>

\* publish_payload is called with an event of this master and creates its tasks
PublishStarts ==
    /\ push.state = "idle"
    /\ \E tag \in OrigTags \cup {PeerTag(Me)} :
          push' = create_tasks(tag, <<"data">>, secret)
    /\ UNCHANGED <<reqVars, auxVars, mesh, present, presence_events, client_id, live,
                   ever,
                   peer_keys, auth_errors, published, draining, drained, arrived,
                   peer_aes, last>>

\* one of the pushes ends, well or not
PushCompletes ==
    /\ push.state = "awaiting"
    /\ \E t \in Targets, outcome \in {"ok", "closed", "error"} :
          /\ push.tasks[t] = "running"
          /\ push' = [push EXCEPT !.tasks[t] = outcome]
    /\ UNCHANGED <<reqVars, auxVars, mesh, present, presence_events, client_id, live,
                   ever,
                   peer_keys, auth_errors, published, draining, drained, arrived,
                   peer_aes, last>>

\* lines 1292-1307: the gather is over; every task.result() is looked at and
\* a failure is logged
PublishReturns ==
    /\ push.state = "awaiting"
    /\ LET g == gather(push.tasks) IN
          /\ g.done
          /\ push' = [push EXCEPT !.state = "returned", !.raised = g.raised,
                                  !.logged = IF g.raised = "" THEN Failed(push.tasks)
                                             ELSE {}]
    /\ UNCHANGED <<reqVars, auxVars, mesh, present, presence_events, client_id, live,
                   ever,
                   peer_keys, auth_errors, published, draining, drained, arrived,
                   peer_aes, last>>

\* the publisher takes the next event
PublishDone ==
    /\ push.state = "returned"
    /\ push' = NoPush
    /\ UNCHANGED <<reqVars, auxVars, mesh, present, presence_events, client_id, live,
                   ever,
                   peer_keys, auth_errors, published, draining, drained, arrived,
                   peer_aes, last>>

\* the publish loads, the configurations and the answers of the matcher
PubLoads ==
    [tgt_type : {"glob", "pcre", "list", "grain", "compound", AbsentType},
     tgt : {StrTgt("*"), StrTgt("m1,m2"), ListTgt(<<"m1">>), ListTgt(<<"m2", "m3">>)},
     serial : {FALSE}]

PubConfigs ==
    [cluster_id : BOOLEAN, sign_pub_messages : BOOLEAN, topic_support : BOOLEAN]

MatchIds == {<< >>, <<"m1">>, <<"m1", "m2">>}

\* PubServerChannel.publish_payload wraps a load
WrapPayload ==
    \E o \in PubConfigs, load \in PubLoads, match_ids \in MatchIds :
        /\ last' = [op |-> "wrap", o |-> o, load |-> load, match_ids |-> match_ids,
                    res |-> wrap_payload(o, load, match_ids)]
        /\ UNCHANGED <<reqVars, pubVars, auxVars>>

----------------------------------------------------------------------------
(* Specifications *)

\* MasterPubServerChannel.__init__ and _publish_daemon: no peer key, empty
\* queues, nothing being published
InitCluster ==
    /\ peer_keys = [q \in Peers |-> 0]
    /\ auth_errors = [q \in Peers |-> << >>]
    /\ published = << >>
    /\ draining = {}
    /\ drained = << >>
    /\ arrived = 0
    /\ peer_aes = [q \in Senders |-> 1]
    /\ push = NoPush
    /\ mesh = NoMesh

\* PubServerChannel.__init__: nobody present
InitPub ==
    /\ present = [i \in {} |-> {}]
    /\ client_id = [c \in Clients |-> NoneId]
    /\ live = [i \in Ids |-> {}]
    /\ ever = [c \in Clients |-> {}]
    /\ InitCluster

\* no call in progress
InitAux ==
    /\ fetched = [w \in Workers |-> NoCall]
    /\ rewriting = {}
    /\ suspended = {}

InitStore ==
    /\ InitPub /\ presence_events = "False"
    /\ InitAux
    /\ keys = [i \in Ids |-> NoKey]
    /\ denied = [i \in Ids |-> << >>]
    /\ connected = {}
    /\ now = 0
    /\ sessions = [i \in Ids |-> NoSess]
    /\ sessfile = [i \in Ids |-> NoSess]
    /\ keygen = [i \in Ids |-> 0]
    /\ secret = 1
    /\ crypticle = 1
    /\ last = NoLast

\* the authentication state machine
InitAuth == InitStore /\ opts \in AuthConfigs

NextAuth ==
    \/ HandleAuth
    \/ SendReply
    \/ Restart(AuthConfigs)

SpecAuth == InitAuth /\ [][NextAuth]_vars

\* authentication with tokens under both token modes, with and without
\* audit events
TokenConfigs ==
    [open_mode : BOOLEAN, max_minions : {0}, auth_events : BOOLEAN,
     auth_mode : {1, 2}, con_cache : {FALSE}, master_sign_pubkey : {FALSE},
     pubkey_signature : {FALSE}, request_server_ttl : {0}, publish_session : {2}]

InitToken == InitStore /\ opts \in TokenConfigs

NextToken ==
    \/ HandleTokenAuth
    \/ SendReply
    \/ Restart(TokenConfigs)

SpecToken == InitToken /\ [][NextToken]_vars

\* the max_minions cap: max_minions = 1, every identity presenting key 1
FullConfigs ==
    [open_mode : {FALSE}, max_minions : {1}, auth_events : {TRUE},
     auth_mode : {1}, con_cache : BOOLEAN, master_sign_pubkey : {FALSE},
     pubkey_signature : {FALSE}, request_server_ttl : {0}, publish_session : {2}]

HandleAuthCapped ==
    HandleAuthWith(Ids \X {[body |-> 1, ws |-> FALSE]}, {FALSE}, {ExtOk})

InitFull == InitStore /\ opts \in FullConfigs

NextFull ==
    \/ HandleAuthCapped
    \/ SendReply
    \/ MinionConnects
    \/ MinionDisconnects

SpecFull == InitFull /\ [][NextFull]_vars


\* parallel workers authenticating one identity whose key is on record,
\* accepted or pending
InitRace ==
    /\ InitPub /\ presence_events = "False"
    /\ InitAux
    /\ opts \in AuthConfigs /\ ~opts.open_mode
    /\ \E st \in {"accepted", "pending"} :
           keys = [i \in Ids |-> IF i = "m1" THEN [RaceKey EXCEPT !.state = st]
                                 ELSE NoKey]
    /\ denied = [i \in Ids |-> << >>]
    /\ connected = {}
    /\ now = 0
    /\ sessions = [i \in Ids |-> NoSess]
    /\ sessfile = [i \in Ids |-> NoSess]
    /\ keygen = [i \in Ids |-> 0]
    /\ secret = 1
    /\ crypticle = 1
    /\ last = NoLast

NextRace ==
    \/ AuthFetches
    \/ AuthStores

SpecRace == InitRace /\ [][NextRace]_vars

\* the request channel after authentication: m1 and m2 are accepted with the
\* keys 1 and 2, m3 is unknown
ReqConfigs ==
    [open_mode : {FALSE}, max_minions : {0}, auth_events : {TRUE},
     auth_mode : {1}, con_cache : {FALSE}, master_sign_pubkey : {FALSE},
     pubkey_signature : {FALSE}, request_server_ttl : {-1, 0, 2},
     publish_session : {2}]

InitReq ==
    /\ InitPub /\ presence_events = "False"
    /\ InitAux
    /\ opts \in ReqConfigs
    /\ keys = [i \in Ids |->
                 IF i = "m1" THEN [pub |-> [body |-> 1, ws |-> FALSE], state |-> "accepted"]
                 ELSE IF i = "m2"
                 THEN [pub |-> [body |-> 2, ws |-> FALSE], state |-> "accepted"]
                 ELSE NoKey]
    /\ denied = [i \in Ids |-> << >>]
    /\ connected = {}
    /\ now = 0
    /\ sessions = [i \in Ids |-> NoSess]
    /\ sessfile = [i \in Ids |-> NoSess]
    /\ keygen = [i \in Ids |-> 0]
    /\ secret = 1
    /\ crypticle = 1
    /\ last = NoLast

NextReq ==
    \/ HandleRequest
    \/ SendReply
    \/ Tick

SpecReq == InitReq /\ [][NextReq]_vars

\* requests with well-formed and malformed ids
NextIds ==
    \/ HandleIdRequest
    \/ SendReply

SpecIds == InitReq /\ [][NextIds]_vars

\* rotation of the master secret under enc "aes" requests of version <= 2
NextSecret ==
    \/ HandleSecretRequest
    \/ SendReply
    \/ RotateSecret

SpecSecret == InitReq /\ [][NextSecret]_vars

\* session keys: m1 authenticates and sends requests to this worker, whose
\* handler takes time, next to another worker on the same sessions directory
HandleAuthSession ==
    HandleAuthWith({<<"m1", [body |-> 1, ws |-> FALSE]>>}, {FALSE}, {ExtOk})

NextSession ==
    \/ HandleAuthSession
    \/ RequestArrives
    \/ HandlerReturns
    \/ SendReply
    \/ Tick
    \/ OtherWorkerStats
    \/ OtherWorkerWrites

SpecSession == InitReq /\ [][NextSession]_vars

\* session_key called by this worker for m1 and m2 as time passes, next to
\* another worker on the same sessions directory
SessionKeyCall ==
    /\ last = NoLast
    /\ \E minion \in {"m1", "m2"} :
          LET r == session_key(SessState, minion, now)
          IN  /\ r.st.keygen[minion] <= MaxGen
              /\ sessions' = r.st.sessions
              /\ sessfile' = r.st.sessfile
              /\ keygen' = r.st.keygen
              /\ last' = [op |-> "session_key", id |-> minion, t |-> now,
                          cached |-> sessions[minion], file |-> sessfile[minion],
                          gen |-> keygen[minion], key |-> r.key]
    /\ UNCHANGED <<opts, keys, denied, connected, now, secret, crypticle>>
    /\ UNCHANGED <<pubVars, auxVars>>

NextFresh ==
    \/ SessionKeyCall
    \/ SendReply
    \/ Tick
    \/ OtherWorkerStats
    \/ OtherWorkerWrites

SpecFresh == InitReq /\ [][NextFresh]_vars

\* the relay of cluster events
NextCluster ==
    \/ ClusterMessageArrives
    \/ PeerRotates
    \/ DrainResumes

\* a master of a cluster; the request channel takes no step here
InitClusterMaster == InitReq /\ opts.request_server_ttl = 0

SpecCluster == InitClusterMaster /\ [][NextCluster]_vars

\* the exchange of keys between the masters of a cluster; the pool puller of
\* a master that runs handles the events it has received
NextMesh ==
    \/ MeshStarts
    \/ MeshRotates
    \/ MeshDelivers

SpecMesh == InitClusterMaster /\ [][NextMesh]_vars /\ WF_vars(MeshDelivers)

\* the tags of the events a master relays: up to MaxTag parts, among them the
\* words of the relay's own prefix, and the ids of the masters
TagParts == {"cluster", "event", "p2", "job"}
Tags == UNION {[1..n -> TagParts] : n \in 1..MaxTag}

\* publish_payload of the master peer tags an event of its own with tagify(tag,
\* opts["id"], "cluster/event") (line 1288); the receiving master parses the
\* tag
ParseRelayedTag ==
    /\ last = NoLast
    /\ \E peer \in Peers, orig \in Tags :
          last' = [op |-> "parse", peer |-> peer, orig |-> orig,
                   res |-> parse_cluster_tag(EventTag(peer, orig))]
    /\ UNCHANGED <<reqVars, pubVars, auxVars>>

NextTag ==
    \/ ParseRelayedTag
    \/ SendReply

SpecTag == InitClusterMaster /\ [][NextTag]_vars

\* the exchange of keys, with few events in between
NextPeerKey ==
    \/ ClusterMessageArrives /\ arrived' <= MaxBuffered
    \/ PeerRotates
    \/ DrainResumes

SpecPeerKey == InitClusterMaster /\ [][NextPeerKey]_vars

\* the fan-out of the events of this master
NextPublish ==
    \/ PublishStarts
    \/ PushCompletes
    \/ PublishReturns
    \/ PublishDone
    \/ RotateSecret

SpecPublish == InitClusterMaster /\ [][NextPublish]_vars

\* the wrapping of publish loads
NextWrap == WrapPayload

SpecWrap == InitClusterMaster /\ [][NextWrap]_vars

\* presence tracking of the publish channel
InitPresence ==
    /\ InitPub /\ presence_events \in {"True", "False", Unset}
    /\ InitAux
    /\ opts \in FullConfigs
    /\ keys = [i \in Ids |-> NoKey]
    /\ denied = [i \in Ids |-> << >>]
    /\ connected = {}
    /\ now = 0
    /\ sessions = [i \in Ids |-> NoSess]
    /\ sessfile = [i \in Ids |-> NoSess]
    /\ keygen = [i \in Ids |-> 0]
    /\ secret = 1
    /\ crypticle = 1
    /\ last = NoLast

NextPresence ==
    \/ presence_callback
    \/ remove_presence_callback

SpecPresence == InitPresence /\ [][NextPresence]_vars

----------------------------------------------------------------------------
(* Claims on the authentication state machine (SpecAuth).                  *)
(* "The key presented" is the text of load["pub"] without its surrounding  *)
(* whitespace, which _auth strips before anything else (line 450).         *)

IsAuth == last.op = "auth" /\ last.id \in Ids
Presented == Strip(last.pub)

\* the reply {"enc": "clear", "load": {"ret": r}}, signed or not
ClearReply(r) ==
    last.raised = "" /\ last.reply.enc = "clear" /\ last.reply.ret = r

\* the reply _clear_signed gives when the signing algorithm the request names
\* is not supported
BadSigReply == last.raised = "" /\ last.sign /\ last.reply = Clear("bad sig algo")

AcceptFields == {"enc", "pub_key", "publish_port", "aes", "session", "sig"}
AcceptReply ==
    last.raised = "" /\ last.reply.ret = "accept" /\ AcceptFields \subseteq last.reply.fields

KeySwapCase ==
    /\ IsAuth /\ ~opts.open_mode /\ ~last.full
    /\ last.pre.state = "accepted"
    /\ ~compare_keys(last.pre.pub, last.pub)

KeySwapEffect ==
    /\ keys[last.id] = last.pre
    /\ InList(Presented, denied[last.id])

NoKeyStoreWrite ==
    /\ last.writes = << >>
    /\ keys[last.id] = last.pre
    /\ denied[last.id] = last.predenied

OpenModeCase == IsAuth /\ opts.open_mode /\ ~last.full

\* C6 as stated, for a non-empty key: under open_mode the KeyRecord after the
\* call is {pub: the presented key, state: accepted}, whatever it was before
C6_OpenMode ==
    OpenModeCase /\ Truthy(Presented)
        => keys[last.id] = [pub |-> Presented, state |-> "accepted"]

RepeatedAcceptCase ==
    /\ IsAuth /\ ~last.full
    /\ last.pre.state = "accepted"
    /\ compare_keys(last.pre.pub, last.pub)

FirstContactCase ==
    /\ IsAuth /\ ~opts.open_mode /\ ~last.full
    /\ last.pre = NoKey /\ ~last.as /\ ~last.ar

FirstContactEffect ==
    /\ keys[last.id] = [pub |-> Presented, state |-> "pending"]
    /\ last.reply.fields \cap {"aes", "session", "token"} = {}
    /\ sessfile[last.id] = NoSess

StillPendingCase ==
    /\ IsAuth /\ ~opts.open_mode /\ ~last.full
    /\ last.pre.state = "pending"
    /\ compare_keys(last.pre.pub, last.pub)
    /\ ~last.as /\ ~last.ar

AutoRejectCase ==
    /\ IsAuth /\ ~opts.open_mode /\ ~last.full
    /\ last.ar
    /\ last.pre = NoKey \/ last.pre.state = "pending"

\* the record is rejected, with the presented key for a new identity and with
\* the pending key otherwise; DeniedKeySet is as before
AutoRejectEffect ==
    /\ keys[last.id] = IF last.pre = NoKey
                       THEN [pub |-> Presented, state |-> "rejected"]
                       ELSE [pub |-> Strip(last.pre.pub), state |-> "rejected"]
    /\ denied[last.id] = last.predenied

RejectedCase ==
    /\ IsAuth /\ ~opts.open_mode /\ ~last.full
    /\ last.pre.state = "rejected"

PendingMismatchCase ==
    /\ IsAuth /\ ~opts.open_mode /\ ~last.full
    /\ last.pre.state = "pending"
    /\ ~compare_keys(last.pre.pub, last.pub)
    /\ ~last.ar

\* the record is the pending one and the presented key is a denied key
PendingMismatchEffect ==
    /\ keys[last.id] = last.pre /\ keys[last.id].state = "pending"
    /\ InList(Presented, denied[last.id])

AutoSignCase ==
    /\ IsAuth /\ ~opts.open_mode /\ ~last.full
    /\ ~last.ar /\ last.as
    /\ \/ last.pre = NoKey
       \/ last.pre.state = "pending" /\ compare_keys(last.pre.pub, last.pub)

\* C28 as stated: with open_mode off, auto_reject false and auto_sign true, an
\* identity with no KeyRecord, or pending with the presented key, is left
\* accepted with the presented key and gets the accept reply
C28_AutoSign ==
    AutoSignCase =>
        /\ keys[last.id] = [pub |-> Presented, state |-> "accepted"]
        /\ AcceptReply

\* the same for requests that name supported algorithms and carry no token:
\* the record is accepted whatever the key is, the accept reply needs a key
\* that parses
AutoSignParsed ==
    AutoSignCase /\ last.plain =>
        /\ keys[last.id] = [pub |-> Presented, state |-> "accepted"]
        /\ IF ParsesAsKey(Presented) THEN AcceptReply ELSE ClearReply("False")

\* the call stored an accepted KeyRecord that was not there before
NewlyAccepted ==
    /\ IsAuth /\ InList(<<"keys", last.id>>, last.writes)
    /\ keys[last.id].state = "accepted" /\ keys[last.id] # last.pre

\* C37 as stated: an _auth call that changes a KeyRecord to accepted, or
\* overwrites it under open_mode, returns the accept reply; a call that ends
\* in an error reply leaves no newly accepted KeyRecord
C37_AcceptRecorded == NewlyAccepted /\ last.raised = "" => AcceptReply

\* what holds: a newly accepted record whose key parses comes with the
\* accept reply when the request names supported algorithms and has no token
AcceptRecordedParsed ==
    NewlyAccepted /\ last.plain /\ ParsesAsKey(keys[last.id].pub) => AcceptReply

KeyStep(old, new) ==
    \/ new = old
    \/ old = NoKey /\ new.state \in {"pending", "rejected", "accepted"}
    \/ old.state = "pending" /\ new.state \in {"rejected", "accepted"}

\* C11: with open_mode off, no step changes the state or the public key of a
\* KeyRecord that is accepted or rejected, and every change of a KeyRecord is
\* one of none->pending, none->rejected, none->accepted, pending->rejected,
\* pending->accepted
C11_MonotonicKeyState ==
    [][~opts.open_mode => \A i \in Ids : KeyStep(keys[i], keys'[i])]_vars

\* a rejected identity asks again while auto_sign names it, and an accepted
\* identity is left alone by auto_reject: the record is what it was
C11_Witness ==
    /\ IsAuth /\ ~opts.open_mode
    /\ \/ last.pre.state = "rejected" /\ last.as
       \/ last.pre.state = "accepted" /\ last.ar
    /\ last.plain /\ last.raised = ""
    /\ keys[last.id] = last.pre

----------------------------------------------------------------------------
(* Claims on parallel workers sharing the KeyStore (SpecRace) *)

NoDuplicates(lst) == \A i, j \in 1..Len(lst) : lst[i] = lst[j] => i = j

\* C12 as stated: a key recorded in DeniedKeySet[identity] is recorded in every
\* later state, and no key is recorded twice, whatever the interleaving of the
\* _auth calls of parallel workers
C12_DeniedAppendOnly ==
    [][\A i \in Ids :
          /\ \A k \in Pubs : InList(k, denied[i]) => InList(k, denied'[i])
          /\ NoDuplicates(denied'[i])]_vars

----------------------------------------------------------------------------
(* Claims on the max_minions cap (SpecFull) *)

\* C5 as stated: with max_minions = N > 0 and N identities connected, _auth
\* from an identity that is not connected is answered "full", and _auth from a
\* connected identity is not answered "full"
C5_MaxMinions ==
    IsAuth /\ opts.max_minions > 0 /\ Cardinality(last.preconn) = opts.max_minions
        => /\ last.id \notin last.preconn => ClearReply("full")
           /\ last.id \in last.preconn => ~ClearReply("full")

\* the call that ends with this step is an _auth call answered "full"
AnsweredFull ==
    /\ last'.op = "auth" /\ last # last'
    /\ last'.raised = "" /\ last'.reply.enc = "clear" /\ last'.reply.ret = "full"

\* C29: an _auth call that answers "full" has fetched and stored no KeyRecord
\* and no DeniedKeySet entry and has issued no session key: the KeyStore, the
\* session files and the session keys in memory are as before the call
C29_FullLeavesKeyStore ==
    [][AnsweredFull
          => /\ last'.reads = << >> /\ last'.writes = << >>
             /\ UNCHANGED <<keys, denied, sessions, sessfile, keygen>>]_vars

\* an identity that was accepted before is answered "full"
C29_Witness ==
    /\ IsAuth /\ ClearReply("full")
    /\ last.pre.state = "accepted" /\ keys[last.id] = last.pre
    /\ last.reads = << >>

----------------------------------------------------------------------------
(* Claims on handle_message (SpecReq) *)

IsReq == last.op = "req"
ReqVersion == IF "version" \in last.p.has THEN last.p.version ELSE 0
ReqL == last.p.load.plain

\* an enc "aes" envelope of version > 2
IsAes3 == IsReq /\ last.p.wellformed /\ last.p.enc = "aes" /\ ReqVersion > 2

\* the envelope decrypts under the session key of its outer id
Decoded ==
    /\ "id" \in last.p.has /\ last.p.id \in Ids
    /\ last.p.load.k = CurrentKey(ReqVersion, last.p.id)

IdBindingCase ==
    /\ IsAes3
    /\ "id" \in last.p.has /\ "id" \in ReqL.has
    /\ last.p.id # ReqL.id

\* C2: an enc "aes", version > 2 envelope whose outer id differs from the id in
\* its load never reaches the application handler and gets no encrypted
\* reply: when handle_message returns, it returns a rejection string
C2_IdBinding ==
    IdBindingCase =>
        /\ ~last.invoked
        /\ last.reply.enc \notin {"aes", "private", "raw"}
        /\ last.raised = "" => last.reply.enc = "str" /\ last.reply.ret # "ret"

\* the outer id is m1, the load is a fresh, decodable load of m2 with the valid
\* token of m2, and the answer is "bad load"
C2_Witness ==
    /\ IdBindingCase /\ Decoded /\ ReqL.isdict
    /\ ReqL.has = FullLoad /\ ReqL.id = "m2" /\ ReqL.tok = 2
    /\ opts.request_server_ttl > 0 /\ now - ReqL.ts <= opts.request_server_ttl
    /\ last.raised = "" /\ last.reply = Str("bad load") /\ ~last.invoked

\* the token of the load is the one made with the accepted key of its id
TokenValid ==
    /\ valid_id(ReqL.id) /\ keys[ReqL.id].state = "accepted"
    /\ ParsesAsKey(keys[ReqL.id].pub) /\ ReqL.tok = keys[ReqL.id].pub.body

\* the ttl check of line 199 passes, or there is none
TtlPassed ==
    opts.request_server_ttl > 0
        => "ts" \in ReqL.has /\ now - ReqL.ts <= opts.request_server_ttl

\* C35: the handler is invoked for an enc "aes" envelope of version > 2 only
\* if the envelope decrypts under the session key of its outer id, the ttl
\* check passes, the outer id is the id of the load and is well-formed, and
\* the load carries a token that is valid for the accepted key of the id; for
\* version <= 2 only if the envelope decrypts and the token, when the load
\* has both tok and id, is valid; the load the handler gets has no tok
C35_HandlerAfterChecks ==
    IsReq /\ last.p.wellformed /\ last.p.enc = "aes" /\ last.invoked
        => /\ "tok" \notin last.handled
           /\ IF ReqVersion > 2
              THEN /\ Decoded /\ TtlPassed
                   /\ "id" \in ReqL.has /\ last.p.id = ReqL.id /\ valid_id(ReqL.id)
                   /\ "tok" \in ReqL.has /\ TokenValid
              ELSE /\ last.p.load.k = MasterKey(crypticle)
                   /\ "tok" \in ReqL.has /\ "id" \in ReqL.has => TokenValid

\* a version > 2 request made exactly ttl ago reaches the handler, which
\* gets the load without its token
C35_Witness ==
    /\ IsAes3 /\ last.invoked
    /\ opts.request_server_ttl > 0 /\ now - ReqL.ts = opts.request_server_ttl
    /\ "tok" \in ReqL.has /\ "tok" \notin last.handled /\ "id" \in last.handled

\* C3 as stated: every handle_message call completes by returning a reply
C3_NoException == IsReq => last.raised = ""

\* the request passed decoding and the structural checks, and carries "ts"
TTLCase ==
    /\ IsAes3 /\ Decoded /\ ReqL.isdict
    /\ "id" \in ReqL.has => IsStr(ReqL.id) /\ ~HasNul(ReqL.id)
    /\ "ts" \in ReqL.has

\* the id-binding, id-format and token checks pass
OtherChecksPass ==
    /\ "id" \in ReqL.has /\ last.p.id = ReqL.id /\ valid_id(ReqL.id)
    /\ "tok" \in ReqL.has
    /\ keys[ReqL.id].state = "accepted" /\ keys[ReqL.id].pub.body = ReqL.tok

\* C4 as stated: with request_server_ttl > 0 a request older than the ttl is
\* answered "bad load" without reaching the handler; a request not older than
\* the ttl, or any request when request_server_ttl <= 0, reaches the handler
\* when the id-binding, id-format and token checks pass
C4_TTLBoundary ==
    TTLCase =>
        /\ opts.request_server_ttl > 0 /\ now - ReqL.ts > opts.request_server_ttl
              => last.raised = "" /\ last.reply = Str("bad load") /\ ~last.invoked
        /\ (opts.request_server_ttl <= 0 \/ now - ReqL.ts <= opts.request_server_ttl)
              /\ OtherChecksPass
              => last.invoked

\* the handler asked for send_private and _encrypt_private was called
PrivateCase ==
    /\ IsReq /\ last.invoked /\ ~last.x.h.exc /\ last.x.h.fun = "send_private"
    /\ last.p.enc = "aes"

\* the key of the target is missing or corrupt, or wrapping the one-time key
\* or signing raises
PrivateDegrades ==
    \/ keys[last.x.h.tgt] = NoKey
    \/ ~ParsesAsKey(keys[last.x.h.tgt].pub)
    \/ ~last.x.encOk
    \/ ReqVersion > 1 /\ "nonce" \in ReqL.has /\ ~last.x.sigOk

\* C22 as stated: no exception leaves _encrypt_private; a missing or corrupt
\* target key, or an exception while wrapping the one-time key or signing,
\* yields the empty encrypted payload
C22_PrivateDegrades ==
    PrivateCase =>
        /\ last.raised = ""
        /\ PrivateDegrades => last.reply = Dumps(MasterKey(crypticle), "empty")

\* an enc "aes" request whose load is a dict was turned away: it was not
\* given to the application handler, and handle_message returned a reply
RejectedAes ==
    /\ IsReq /\ last.p.wellformed /\ last.p.enc = "aes" /\ ReqL.isdict
    /\ ~last.invoked /\ last.raised = ""

\* the envelope decrypts: under the session key of its outer id for version
\* > 2, under the master secret before
Decrypts == IF ReqVersion > 2 THEN Decoded ELSE last.p.load.k = MasterKey(crypticle)

----------------------------------------------------------------------------
(* Claims on malformed ids (SpecIds) *)

\* the id of the load is a number, a list, None or a string with NUL, or the
\* load is an "_auth" load with no id
MalformedIdCase ==
    /\ IsReq
    /\ \/ "id" \in ReqL.has /\ (~IsStr(ReqL.id) \/ HasNul(ReqL.id))
       \/ "id" \notin ReqL.has /\ last.p.enc = "clear" /\ ReqL.cmd = "_auth"

\* C24 as stated: a request with a malformed id is answered by handle_message
\* with a rejection string; neither _auth nor the application handler runs
\* and the KeyStore is not touched
C24_MalformedIds ==
    MalformedIdCase =>
        /\ last.raised = "" /\ last.reply.enc = "str"
        /\ ~last.invoked /\ last.events = << >>
        /\ last.writes = << >> /\ keys = last.prekeys /\ denied = last.predenied

----------------------------------------------------------------------------
(* Claims on the master secret (SpecSecret) *)

\* an enc "aes" request of version <= 2
SelfHealCase == IsReq /\ last.p.wellformed /\ last.p.enc = "aes" /\ ReqVersion <= 2

\* nothing but decoding can reject the load: it is a dict and its token, if
\* any, is the token of its identity
LoadPasses ==
    /\ ReqL.isdict
    /\ "tok" \in ReqL.has =>
          keys[ReqL.id].state = "accepted" /\ keys[ReqL.id].pub.body = ReqL.tok

\* C13: an enc "aes", version <= 2 request is decrypted at most twice, the
\* second time only after a failure with a local key that differs from the
\* shared secret; a request encrypted under the current secret is decoded (and
\* the local key is the shared secret afterwards); a request that fails under
\* the local key is answered "bad load" when the secret is unchanged or when
\* it fails under the secret too
C13_SecretSelfHeal ==
    SelfHealCase =>
        /\ last.decrypts \in {1, 2}
        /\ last.decrypts = 2 <=>
              last.pre # secret /\ last.p.load.k # MasterKey(last.pre)
        /\ last.p.load.k = MasterKey(secret) =>
              /\ crypticle = secret
              /\ LoadPasses => last.invoked
        /\ last.p.load.k # MasterKey(last.pre)
              /\ (last.pre = secret \/ last.p.load.k # MasterKey(secret))
              => last.raised = "" /\ last.reply = Str("bad load") /\ ~last.invoked

\* the local key is stale, the request is encrypted under the current secret:
\* one retry, the request is decoded and handled
C13_Witness ==
    /\ SelfHealCase /\ LoadPasses
    /\ last.pre # secret /\ last.p.load.k = MasterKey(secret)
    /\ last.decrypts = 2 /\ last.invoked /\ crypticle = secret
    /\ last.reply = Dumps(MasterKey(secret), "ret")

\* C14 as stated: a reply encrypted with the master Crypticle (a `send` reply
\* for version <= 2, the empty payload of _encrypt_private) is encrypted with
\* the value the shared secret has at the time of the reply
C14_CurrentSecret ==
    IsReq /\ last.raised = "" /\ last.reply.enc = "aes" /\ last.reply.key.id = "aes"
        => last.reply.key = MasterKey(secret)

----------------------------------------------------------------------------
(* Claims on session keys (SpecSession) *)

\* C15 as stated: the `send` reply to a version > 2 request is encrypted with
\* the session key that decrypted the request
C15_NoTornSessionKey ==
    IsAes3 /\ last.invoked /\ last.raised = "" /\ last.reply.enc = "aes"
        => last.reply.key = last.p.load.k

\* this worker just called session_key for m1: in the accept reply of _auth,
\* or for the `send` reply to a version > 2 request
SessionKeyCalled ==
    \/ IsAuth /\ AcceptReply
    \/ IsAes3 /\ last.invoked /\ last.raised = "" /\ last.reply.enc = "aes"

\* C16 as stated: after a session_key call of this worker for an identity, the
\* key the worker holds in memory (the key the call returned) is the key on
\* disk, whatever races on the key file went before
C16_SessionKeyHeals ==
    SessionKeyCalled => sessions["m1"].key = sessfile["m1"].key

----------------------------------------------------------------------------
(* Claims on session_key alone (SpecFresh) *)

IsSessionKey == last.op = "session_key"

\* the in-memory entry of the call is fresh: now - issued_at < ttl
CachedFresh ==
    last.cached # NoSess /\ last.t - last.cached.mtime < opts.publish_session

\* the key file of the call is absent or older than ttl
FileStale ==
    last.file = NoSess \/ last.t - last.file.mtime > opts.publish_session

\* the call wrote a new key: the next key of the identity, issued at the
\* time of the call
Regenerated ==
    /\ keygen[last.id] = last.gen + 1
    /\ sessfile[last.id] = [mtime |-> last.t,
                            key |-> [id |-> last.id, n |-> last.gen + 1]]

\* C31: session_key returns the in-memory key, changing nothing, iff
\* now - cached issued_at < ttl; otherwise it regenerates the key file iff the
\* file is absent or now - file mtime > ttl, sets the in-memory entry to (file
\* mtime, file key) and returns that key.  Hence the key returned was issued
\* at most ttl before the call, and a call within ttl of the issue of the
\* in-memory key returns that same key.
C31_SessionKeyFresh ==
    IsSessionKey
        => /\ IF CachedFresh
              THEN /\ last.key = last.cached.key
                   /\ sessions[last.id] = last.cached
                   /\ sessfile[last.id] = last.file
                   /\ keygen[last.id] = last.gen
              ELSE /\ IF FileStale THEN Regenerated
                      ELSE sessfile[last.id] = last.file /\ keygen[last.id] = last.gen
                   /\ sessions[last.id] = sessfile[last.id]
                   /\ last.key = sessfile[last.id].key
           /\ sessions[last.id].key = last.key
           /\ last.t - sessions[last.id].mtime <= opts.publish_session
           /\ last.t - sessions[last.id].mtime >= 0

\* a call that finds the in-memory entry expired and a key file, written by
\* another worker, that is exactly ttl old: the file is kept and its key
\* returned
C31_Witness ==
    /\ IsSessionKey /\ ~CachedFresh /\ last.cached # NoSess
    /\ last.file # NoSess /\ last.file # last.cached
    /\ last.t - last.file.mtime = opts.publish_session
    /\ last.key = last.file.key

----------------------------------------------------------------------------
(* Claims on tokens in _auth (SpecToken) *)

\* the call gets to the accept reply of line 765: the identity is not turned
\* away, its key is accepted (already, by auto-sign or by open mode) and
\* parses as a public key
AcceptPath ==
    /\ IsAuth /\ ~last.full /\ ParsesAsKey(Presented)
    /\ \/ opts.open_mode
       \/ last.pre.state = "accepted" /\ compare_keys(last.pre.pub, last.pub)
       \/ /\ last.as /\ ~last.ar
          /\ \/ last.pre = NoKey
             \/ last.pre.state = "pending" /\ compare_keys(last.pre.pub, last.pub)

\* the token of the request cannot be decrypted: the encryption algorithm is
\* not supported, or the decryption fails (bad padding); the signing
\* algorithm is supported
TokenFailCase ==
    AcceptPath /\ last.token /\ last.sigOk /\ (~last.encOk \/ ~last.tokDec)

\* C21 as stated: on the accept path a token that cannot be decrypted does
\* not abort the call: for every auth_mode the reply is the accept reply
\* with pub_key, publish_port, aes, session and sig, and without the token
C21_TokenFailure ==
    TokenFailCase => AcceptReply /\ "token" \notin last.reply.fields

\* C30 as stated: with auth_events enabled every _auth call that returns has
\* fired exactly one audit event, which carries result, act, id and pub; with
\* auth_events disabled it has fired none
C30_AuditEvents ==
    last.op = "auth" /\ last.raised = ""
        => IF opts.auth_events
           THEN /\ Len(last.events) = 1
                /\ last.events[1].act # ""
                /\ last.events[1].id = last.id
           ELSE last.events = << >>

\* what the calls do fire: never more than one event, none when auth_events
\* is disabled, and one with the result and the act of the decision on the
\* full, denied, pend, reject and accept branches
AuditEventsFired ==
    last.op = "auth" /\ last.raised = ""
        => /\ Len(last.events) <= 1
           /\ ~opts.auth_events => last.events = << >>
           /\ opts.auth_events /\ AcceptReply
                 => last.events = <<[result |-> "True", act |-> "accept",
                                     id |-> last.id, pub |-> Presented]>>

\* on the accept path a request of which nothing fails gets the accept reply
AcceptPathReplies ==
    AcceptPath /\ last.sigOk /\ last.encOk /\ (last.token => opts.auth_mode < 2)
        => AcceptReply /\ (last.token /\ last.tokDec <=> "token" \in last.reply.fields)


IsPublished(tag, payload) ==
    \E j \in 1..Len(published) :
        published[j].tag = tag /\ published[j].data.payload = payload

\* C17 as stated: a buffered event that is taken from the queue after the key
\* of its sender was installed or refreshed, and that is encrypted under that
\* key, is published under its original tag
C17_BufferedDelivered ==
    \A i \in 1..Len(drained) :
        drained[i].data.k = drained[i].key
            => IsPublished(drained[i].data.payload.orig, drained[i].data.payload)

\* C18 as stated: the events of one peer are published in the order of their
\* arrival
C18_PeerFifo ==
    \A i, j \in 1..Len(published) :
        i < j /\ published[i].data.payload.src = published[j].data.payload.src
            => published[i].data.payload.n < published[j].data.payload.n

\* publish_payload pushes a cluster/peer event as it is to every peer and not
\* to the local transport; any other event goes to the local transport as it
\* is and to every peer encrypted under the master secret and tagged
\* cluster/event/<own id>/<tag>
PushRouting ==
    push.state # "idle"
        => LET plain == [tag |-> push.tag, enc |-> 0, payload |-> <<"data">>] IN
           IF StartsWith(push.tag, <<"cluster", "peer">>)
           THEN /\ push.tasks[Me] = "none" /\ push.sent[Me] = NoLoad
                /\ \A q \in Peers : push.tasks[q] # "none" /\ push.sent[q] = plain
           ELSE /\ push.tasks[Me] # "none" /\ push.sent[Me] = plain
                /\ \A q \in Peers :
                      /\ push.tasks[q] # "none"
                      /\ push.sent[q].tag = EventTag(Me, push.tag)
                      /\ push.sent[q].payload = <<"data">>
                      /\ push.sent[q].enc \in 1..secret     \* a secret it has had

\* what handle_pool_publish publishes is a decrypted cluster/event payload
\* under its original tag, stamped with the id of its sender, and never
\* under a cluster/peer tag
ReceiptRouting ==
    \A i \in 1..Len(published) :
        /\ ~StartsWith(published[i].tag, <<"cluster", "peer">>)
        /\ published[i].tag = published[i].data.payload.orig
        /\ published[i].data.peer_id = published[i].data.payload.src

\* C40 as stated: the routing of publish_payload by tag, and the local
\* publication by handle_pool_publish of decrypted cluster/event payloads
\* only, stamped with the id of their sender
C40_TagRouting == PushRouting /\ ReceiptRouting

----------------------------------------------------------------------------
(* Claims on the fan-out of events (SpecPublish) *)

Started == {t \in Targets : push.tasks[t] # "none"}

\* the failure of a part of the pushes stops nothing: when publish_payload
\* returns it raises nothing, every push it started is over, and every
\* failure was looked at on its own
NotFailFast ==
    push.state = "returned"
        => /\ push.raised = ""
           /\ \A t \in Started : push.tasks[t] # "running"
           /\ push.logged = Failed(push.tasks)

\* C19 as stated: publish_payload starts the push to the local transport and
\* to every peer pusher before it awaits, and the failure of a part of them
\* neither stops the others nor makes publish_payload fail
C19_FanOutAll ==
    /\ push.state # "idle" => Started = Targets
    /\ NotFailFast

\* C19, amended: for an event whose tag does not start with cluster/peer,
\* publish_payload starts the push to the local transport and to every peer
\* pusher before it awaits; for a cluster/peer event it starts the push to
\* every peer pusher and none to the local transport; the failure of a part
\* of the pushes neither stops the others nor makes publish_payload fail
C19_FanOut ==
    /\ push.state # "idle"
          => Started = IF StartsWith(push.tag, <<"cluster", "peer">>) THEN Peers
                       ELSE Targets
    /\ NotFailFast

\* publish_payload has returned after one push failed with a closed stream,
\* one with another exception and one went well
C19_Witness ==
    /\ push.state = "returned"
    /\ \E t1, t2, t3 \in Targets :
          push.tasks[t1] = "closed" /\ push.tasks[t2] = "error" /\ push.tasks[t3] = "ok"

----------------------------------------------------------------------------
(* Claims on publish targeting (SpecWrap) *)

IsWrap == last.op = "wrap" /\ last.res.raised = ""

\* C20: wrap_payload attaches topic_lst iff the transport has topic support
\* and tgt_type is pcre, glob or list; the attached list is what
\* check_minions(tgt, tgt_type) returned when tgt is a string, and tgt itself
\* otherwise; with no topic support nothing is attached
C20_PublishTargeting ==
    IsWrap =>
        /\ last.res.topic.attached
              <=> last.o.topic_support /\ last.load.tgt_type \in {"pcre", "glob", "list"}
        /\ last.res.topic.attached /\ last.load.tgt.isstr
              => /\ last.res.topic.lst = ListTgt(last.match_ids)
                 /\ last.res.calls = <<[tgt |-> last.load.tgt.str,
                                        tgt_type |-> last.load.tgt_type]>>
        /\ last.res.topic.attached /\ ~last.load.tgt.isstr
              => last.res.topic.lst = last.load.tgt /\ last.res.calls = << >>
        /\ ~last.o.topic_support => ~last.res.topic.attached

\* a list-type publish whose target is a string was wrapped with topic
\* support: the matcher's answer, which differs from the target, is attached
C20_Witness ==
    /\ IsWrap /\ last.o.topic_support
    /\ last.load.tgt_type = "list" /\ last.load.tgt = StrTgt("m1,m2")
    /\ last.match_ids = <<"m1", "m2">>
    /\ last.res.topic = [attached |-> TRUE, lst |-> ListTgt(<<"m1", "m2">>)]

\* the step is a call of send_aes_key_event by m: a key event of m is on its
\* way to a peer
Sends(m) ==
    \E q \in Masters \ {m} : Len(mesh'.queue[q][m]) > Len(mesh.queue[q][m])

\* the step is handle_pool_publish of m installing the key carried by the
\* event at the head of its queue, which is new or differs from the one stored
Installs(m) ==
    \E q \in Masters \ {m} :
        /\ mesh.queue[m][q] # << >>
        /\ mesh'.queue[m][q] = Tail(mesh.queue[m][q])
        /\ mesh.keys[m][q] # Head(mesh.queue[m][q])
        /\ mesh'.keys[m] = [mesh.keys[m] EXCEPT ![q] = Head(mesh.queue[m][q])]

\* the master m with an event of each peer in auth_errors, which could not be
\* decrypted when it came
MeshBuffered(m) ==
    [MeshState(m) EXCEPT
        !.auth_errors = [x \in Masters \ {m} |->
                           <<[tag |-> EventTag(x, <<"minion", "start">>),
                              data |-> [k |-> mesh.secret[x] + 1,
                                        payload |-> [n |-> 1, src |-> x,
                                                     orig |-> <<"minion", "start">>]]]>>]]

\* the step is handle_pool_publish of m receiving a key equal to the one stored
ReceivesSame(m) ==
    \E q \in Masters \ {m} :
        /\ mesh.queue[m][q] # << >>
        /\ Len(mesh'.queue[m][q]) < Len(mesh.queue[m][q])
        /\ mesh.keys[m][q] = Head(mesh.queue[m][q])

\* no key event is on its way and every master that runs holds the current
\* key of every other master that runs
Quiet ==
    \A m \in mesh.up :
        /\ \A q \in Masters \ {m} : mesh.queue[m][q] = << >>
        /\ \A q \in mesh.up \ {m} : mesh.keys[m][q] = mesh.secret[q]

\* C39: a master that runs sends its key event again only in a step in which
\* it installs a peer key that is new or differs from the one stored;
\* receiving a key equal to the one stored sends nothing, changes no key and
\* drains nothing of what is buffered; and once the masters have stopped
\* rotating, the exchange ends: from some point on no key event is on its
\* way and every master holds the current key of every master it can reach
C39_KeyExchangeQuiesces ==
    /\ [][\A m \in Masters :
             /\ Sends(m) /\ m \in mesh.up /\ mesh'.secret[m] = mesh.secret[m]
                   => Installs(m)
             /\ ReceivesSame(m)
                   => /\ \A q \in Masters \ {m} :
                             HasPeerKey(mesh.keys[m], q)
                                 => handle_pool_publish(MeshBuffered(m),
                                                        KeyEvent(q, mesh.keys[m][q]))
                                        = MeshBuffered(m)
                      /\ ~Sends(m) /\ mesh'.keys = mesh.keys
                      /\ \A x \in Masters \ {m} : mesh'.queue[x] = mesh.queue[x]]_vars
    /\ <>[]Quiet

\* the three masters run, the rotations are over, each master holds the
\* current keys of the others and no key event is on its way
C39_Witness ==
    /\ mesh.up = Masters /\ Quiet
    /\ Rotations(mesh) = MaxRotations

\* C36 as stated: parse_cluster_tag applied to the tag cluster/event/<peer
\* id>/<original tag> returns the peer id and the original tag, whatever the
\* original tag contains
C36_TagRoundTrip ==
    last.op = "parse"
        => last.res = [peer_id |-> last.peer, stripped_tag |-> last.orig]

\* whether the parts pat occur in tag, followed by another part
RECURSIVE Occurs(_, _)
Occurs(tag, pat) ==
    /\ Len(tag) > Len(pat)
    /\ SubSeq(tag, 1, Len(pat)) = pat \/ Occurs(Tail(tag), pat)

\* the round trip holds for the original tags in which the text
\* cluster/event/ does not occur
TagRoundTripPlain ==
    last.op = "parse" /\ ~Occurs(<<last.peer>> \o last.orig, <<"cluster", "event">>)
        => last.res = [peer_id |-> last.peer, stripped_tag |-> last.orig]

\* the cluster/peer messages that carry no entry for this master, or of
\* which the signed digest is not the digest of the key they carry
Unverified == {msg \in PeerMessages : ~msg.data.has_me \/ ~msg.data.sigOk}

\* C34: peer_keys changes only in a step that handles a cluster/peer message
\* with an entry for this master and a digest that verifies, and becomes
\* what that message makes it; a message that fails verification or carries
\* no entry for this master leaves peer_keys and the queues of buffered
\* events unchanged, and send_aes_key_event is not called
C34_PeerKeyVerified ==
    /\ [](\A msg \in Unverified :
             LET st == handle_pool_publish(ClusterState, msg)
             IN  /\ st.peer_keys = peer_keys /\ st.auth_errors = auth_errors
                 /\ st.key_events = 0 /\ st.published = published)
    /\ [][peer_keys' # peer_keys
             => \E msg \in PeerMessages \ Unverified :
                   /\ msg.data.aes = peer_aes[msg.data.peer_id]
                   /\ peer_keys' = [peer_keys EXCEPT ![msg.data.peer_id] = msg.data.aes]
                   /\ handle_pool_publish(ClusterState, msg).key_events = 1]_vars

\* a peer's second key is installed while events of the other peer are
\* buffered
C34_Witness ==
    \E q \in Peers :
        /\ peer_keys[q] = peer_aes[q] /\ peer_keys[q] > 1
        /\ \E q2 \in Peers \ {q} : auth_errors[q2] # << >>

----------------------------------------------------------------------------
(* Claims on presence tracking (SpecPresence) *)

\* every subscriber ever added under i was added under i only
OneIdentity(i) == \A c \in Clients : i \in ever[c] => ever[c] = {i}

\* C10: an identity whose subscribers present no other identity is a key of
\* present iff a subscriber added under it has not been removed; no identity
\* maps to an empty set; removing a subscriber that is in no set changes nothing
C10_PresenceConsistency ==
    /\ \A i \in PresenceIds :
          OneIdentity(i) => (i \in DOMAIN present <=> live[i] # {})
    /\ \A i \in DOMAIN present : present[i] # {}
    /\ last.op = "remove" /\ (\A i \in DOMAIN last.pre : last.client \notin last.pre[i])
          => present = last.pre

\* the last subscriber of an identity is removed while another identity stays
C10_Witness ==
    /\ last.op = "remove" /\ last.id \in DOMAIN last.pre
    /\ last.pre[last.id] = {last.client}
    /\ OneIdentity(last.id)
    /\ last.id \notin DOMAIN present /\ DOMAIN present # {}

\* the step adds a subscriber that is recorded under the identity it presents
AddAgain ==
    /\ last'.op = "add" /\ last'.added
    /\ client_id[last'.client] = last'.id
    /\ last'.id \in DOMAIN present /\ last'.client \in present[last'.id]

\* the step removes a subscriber that was removed and not added since
RemoveAgain ==
    /\ last'.op = "remove"
    /\ ever[last'.client] # {}
    /\ \A i \in Ids : last'.client \notin live[i]

\* the step removes a subscriber whose identity was never validated, or is
\* not in present
RemoveUnvalidated ==
    /\ last'.op = "remove"
    /\ client_id[last'.client] = NoneId \/ client_id[last'.client] \notin DOMAIN present

\* C32: adding a subscriber that is already recorded under its identity,
\* removing a subscriber twice, and removing a subscriber whose identity was
\* never validated or is not in present, leave present unchanged and fire no
\* presence event
C32_PresenceIdempotent ==
    [][AddAgain \/ RemoveAgain \/ RemoveUnvalidated
          => present' = present /\ last'.fired = << >>]_vars

\* with presence events enabled, a subscriber that had been added is removed
\* a second time while another identity is present
C32_Witness ==
    /\ presence_events = "True"
    /\ last.op = "remove" /\ last.id \in PresenceIds
    /\ \A i \in Ids : last.client \notin live[i]
    /\ \A i \in DOMAIN last.pre : last.client \notin last.pre[i]
    /\ last.fired = << >> /\ present = last.pre /\ DOMAIN present # {}

\* present after the step, told from present before it and the call alone
PresentAfter ==
    IF last'.op = "add"
    THEN IF last'.added
         THEN [i \in DOMAIN present \cup {last'.id} |->
                  IF i = last'.id
                  THEN (IF i \in DOMAIN present THEN present[i] ELSE {})
                          \cup {last'.client}
                  ELSE present[i]]
         ELSE present
    ELSE LET i == client_id[last'.client] IN
         IF i \in DOMAIN present /\ last'.client \in present[i]
         THEN IF present[i] = {last'.client}
              THEN [j \in DOMAIN present \ {i} |-> present[j]]
              ELSE [present EXCEPT ![i] = @ \ {last'.client}]
         ELSE present

\* the events of an identity entering or leaving present, the snapshot
\* listing the identities present after the step
EventsOf(new, lost) ==
    << [tag |-> "change", new |-> new, lost |-> lost, present |-> {}],
       [tag |-> "present", new |-> {}, lost |-> {}, present |-> DOMAIN present'] >>

\* C33: with presence_events enabled a change event followed by a snapshot
\* event is fired exactly in the steps in which an identity enters present or
\* leaves it, the snapshot listing the identities present after the step;
\* with presence_events not enabled nothing is fired; present after a step
\* depends on present before it and on the call only
C33_PresenceEvents ==
    [][LET entered == DOMAIN present' \ DOMAIN present
           left    == DOMAIN present \ DOMAIN present'
       IN  /\ last'.fired =
                 IF presence_events = "True" /\ entered # {}
                 THEN EventsOf(entered, {})
                 ELSE IF presence_events = "True" /\ left # {}
                 THEN EventsOf({}, left)
                 ELSE << >>
           /\ present' = PresentAfter]_vars

\* with presence events enabled, the last subscriber of an identity is
\* removed and the two events are fired, the snapshot listing the identity
\* that stays
C33_Witness ==
    /\ presence_events = "True"
    /\ last.op = "remove" /\ Len(last.fired) = 2
    /\ last.fired[1].lost = {last.id}
    /\ last.fired[2].present = DOMAIN present /\ DOMAIN present # {}

\* the identities a subscriber is recorded under
RecordedUnder(c) == {i \in DOMAIN present : c \in present[i]}

\* C38 as stated: a subscriber is recorded under at most one identity of
\* present, and after remove_presence_callback under none, also when
\* presence_callback was invoked for it with different verified identities
C38_OneIdentityPerHandle ==
    /\ \A c \in Clients : Cardinality(RecordedUnder(c)) <= 1
    /\ last.op = "remove" => RecordedUnder(last.client) = {}

\* what holds: the same for the subscribers that presented one identity only
OneIdentityPerLoyalHandle ==
    /\ \A c \in Clients : Cardinality(ever[c]) <= 1
                               => Cardinality(RecordedUnder(c)) <= 1
    /\ last.op = "remove" /\ Cardinality(ever[last.client]) <= 1
          => RecordedUnder(last.client) = {}

====
